---------------------------- MODULE Spec2Model ----------------------------
(***************************************************************************)
(* AskTheYouTube: transcript chunking and timestamp alignment              *)
(* (services/chunking_service.py), context retrieval                       *)
(* (services/retrieval_service.py), full-video summaries                   *)
(* (services/summary_service.py) and the /chat endpoint (main.py).         *)
(*                                                                         *)
(* Texts are sequences of one-character strings, character positions are   *)
(* 0-based as in Python, timestamps are natural numbers of seconds.        *)
(* CHUNK_SIZE and CHUNK_OVERLAP are scaled down from 1000 and 200 so that  *)
(* transcripts of a few words already split into several overlapping       *)
(* pieces.  MAX_CONTEXT_CHARS, MAX_CHUNKS_PER_BATCH and the 200 characters *)
(* of a summary source (SOURCE_TEXT_CHARS) are scaled down from 60000, 100 *)
(* and 200 in the same way; TOP_K keeps its value.  Upstream calls         *)
(* (embedding model, vector index, language model) are kept as a log of    *)
(* the calls made; each may fail.                                          *)
(***************************************************************************)
EXTENDS Integers, Sequences, FiniteSets, TLC

\* ------------------------------------------------------------------ bounds
MaxSegs == 2
MaxTime == 1
CHUNK_SIZE == 7
CHUNK_OVERLAP == 5
MaxOffset == 3
MaxPieces == 3
MAX_CONTEXT_CHARS == 4
MAX_CHUNKS_PER_BATCH == 3
SOURCE_TEXT_CHARS == 2
MaxStored == 11
MaxOther == 2
MaxFetched == 6
MaxDocuments == 21

\* ----------------------------------------------------------- input domains
SP == " "
NL == "\n"

\* segment texts: words joined by one space as the transcript API path
\* delivers them, a text with a line break as the fallback summary can have,
\* and the empty text that segment.get('text', '') defaults to
Texts ==
  { <<>>,
    <<"a">>,
    <<"b","b","b","b">>,
    <<"a"," ","b","b","b","b">>,
    <<"a",NL,"a">> }

Segment(t, s) == [text |-> t, start |-> s]

Segments == { Segment(t, s) : t \in Texts, s \in 0..MaxTime }

RECURSIVE SeqsUpTo(_, _)
SeqsUpTo(S, n) ==
  IF n = 0 THEN { <<>> }
  ELSE LET shorter == SeqsUpTo(S, n - 1)
       IN  shorter \cup { Append(q, x) : q \in { r \in shorter : Len(r) = n - 1 }, x \in S }

Transcripts == SeqsUpTo(Segments, MaxSegs)

VideoIds == { <<"v">> }

\* str(uuid.uuid4())[:8]: hexadecimal digits only, never an underscore
Suffixes == { <<"0","a">>, <<"f","1">> }

\* ------------------------------------------------------------ text helpers
Min(S) == CHOOSE x \in S : \A y \in S : x <= y

Max(S) == CHOOSE x \in S : \A y \in S : y <= x

\* text[a:b] of Python, 0-based, end exclusive
Slice(t, a, b) == SubSeq(t, a + 1, b)

\* s occurs in t at 0-based position i
OccursAt(t, s, i) ==
  /\ i >= 0
  /\ i + Len(s) <= Len(t)
  /\ \A k \in 1..Len(s) : t[i + k] = s[k]

\* str.find(sub, start): the lowest position >= start, or -1
find(t, s, start) ==
  LET hits == { i \in start..(Len(t) - Len(s)) : OccursAt(t, s, i) }
  IN  IF hits = {} THEN -1 ELSE Min(hits)

IsSpace(c) == c \in { SP, NL }

RECURSIVE lstrip_count(_)
lstrip_count(t) ==
  IF t = <<>> \/ ~IsSpace(Head(t)) THEN 0 ELSE 1 + lstrip_count(Tail(t))

RECURSIVE rstrip(_)
rstrip(t) ==
  IF t = <<>> \/ ~IsSpace(t[Len(t)]) THEN t ELSE rstrip(SubSeq(t, 1, Len(t) - 1))

\* str.strip()
strip(t) == rstrip(SubSeq(t, lstrip_count(t) + 1, Len(t)))

RECURSIVE Concat(_)
Concat(ss) == IF ss = <<>> THEN <<>> ELSE Head(ss) \o Concat(Tail(ss))

\* ------------------------------------------------------- _create_text_map
\* the offset taken after the segment's text was appended
RECURSIVE text_map_offset_after(_, _, _)
text_map_offset_after(segs, full_text, offset_map) ==
  IF segs = <<>> THEN [full_text |-> full_text, offset_map |-> offset_map]
  ELSE LET segment   == Head(segs)
           appended  == full_text \o segment.text \o <<SP>>
       IN  text_map_offset_after(
             Tail(segs), appended, Append(offset_map, <<Len(appended), segment.start>>))

\* no space appended after a segment's text
RECURSIVE text_map_without_space(_, _, _)
text_map_without_space(segs, full_text, offset_map) ==
  IF segs = <<>> THEN [full_text |-> full_text, offset_map |-> offset_map]
  ELSE LET segment       == Head(segs)
           current_index == Len(full_text)
       IN  text_map_without_space(
             Tail(segs),
             full_text \o segment.text,
             Append(offset_map, <<current_index, segment.start>>))

RECURSIVE create_text_map_loop(_, _, _)
create_text_map_loop(segs, full_text, offset_map) ==
  IF segs = <<>> THEN [full_text |-> full_text, offset_map |-> offset_map]
  ELSE LET segment       == Head(segs)
           current_index == Len(full_text)
       IN  create_text_map_loop(
             Tail(segs),
             full_text \o segment.text \o <<SP>>,
             Append(offset_map, <<current_index, segment.start>>))

_create_text_map(transcript_segments) ==
  create_text_map_loop(transcript_segments, <<>>, <<>>)

\* ---------------------------------------------- _find_timestamp_for_chunk
\* bisect_left in place of bisect_right: an entry at the position itself is missed
RECURSIVE bisect_left_loop(_, _, _, _)
bisect_left_loop(a, x, lo, hi) ==
  IF lo < hi
  THEN LET mid == (lo + hi) \div 2
       IN  IF a[mid + 1] < x THEN bisect_left_loop(a, x, mid + 1, hi)
                             ELSE bisect_left_loop(a, x, lo, mid)
  ELSE lo

\* bisect.bisect_right(a, x): binary search, lo = 0, hi = len(a)
RECURSIVE bisect_loop(_, _, _, _)
bisect_loop(a, x, lo, hi) ==
  IF lo < hi
  THEN LET mid == (lo + hi) \div 2
       IN  IF x < a[mid + 1] THEN bisect_loop(a, x, lo, mid)
                             ELSE bisect_loop(a, x, mid + 1, hi)
  ELSE lo

bisect_right(a, x) == bisect_loop(a, x, 0, Len(a))

\* the guard idx > 0 dropped: offset_map[-1] is the last entry
unguarded_timestamp(chunk_start_index, offset_map) ==
  LET indices == [i \in 1..Len(offset_map) |-> offset_map[i][1]]
      idx     == bisect_right(indices, chunk_start_index)
  IN  IF idx > 0 THEN offset_map[idx][2]
      ELSE IF offset_map = <<>> THEN 0 ELSE offset_map[Len(offset_map)][2]

\* offset_map[idx] taken for offset_map[idx - 1]
next_entry_timestamp(chunk_start_index, offset_map) ==
  LET indices == [i \in 1..Len(offset_map) |-> offset_map[i][1]]
      idx     == bisect_right(indices, chunk_start_index)
  IN  IF idx > 0 /\ idx < Len(offset_map) THEN offset_map[idx + 1][2]
      ELSE IF idx > 0 THEN offset_map[idx][2] ELSE 0

_find_timestamp_for_chunk(chunk_start_index, offset_map) ==
  LET indices == [i \in 1..Len(offset_map) |-> offset_map[i][1]]
      idx     == bisect_right(indices, chunk_start_index)
  IN  IF idx > 0 THEN offset_map[idx][2] ELSE 0

\* ------------------------------------- RecursiveCharacterTextSplitter
\* The splitter configured in ChunkingService.__init__ (keep_separator is the
\* library default True, so pieces are joined with the empty string and each
\* piece is a stripped substring of the text).  A split is a record
\* [s |-> position of the text in full_text, t |-> the text]; the position is
\* bookkeeping the library does not return.
SEPARATORS == << <<NL, NL>>, <<NL>>, <<SP>>, <<>> >>

RECURSIVE occurrences(_, _, _)
occurrences(text, separator, from) ==
  LET j == find(text, separator, from)
  IN  IF j = -1 THEN <<>> ELSE <<j>> \o occurrences(text, separator, j + Len(separator))

\* re.split with the separator kept at the start of the following split;
\* list(text) for the empty separator; empty strings dropped
_split_text_with_regex(text, base, separator) ==
  LET cuts   == IF separator = <<>>
                THEN [i \in 1..(Len(text) + 1) |-> i - 1]
                ELSE <<0>> \o occurrences(text, separator, 0) \o <<Len(text)>>
      pieces == [i \in 1..(Len(cuts) - 1) |->
                   [s |-> base + cuts[i], t |-> Slice(text, cuts[i], cuts[i + 1])]]
  IN  SelectSeq(pieces, LAMBDA p : p.t # <<>>)

\* _join_docs: join, strip, None when nothing is left
_join_docs(current_doc) ==
  LET text == Concat([i \in 1..Len(current_doc) |-> current_doc[i].t])
  IN  IF strip(text) = <<>> THEN <<>>
      ELSE << [s |-> current_doc[1].s + lstrip_count(text), t |-> strip(text)] >>

\* the inner while loop of _merge_splits
RECURSIVE merge_pop(_, _, _)
merge_pop(current_doc, total, len) ==
  IF total > CHUNK_OVERLAP \/ (total + len > CHUNK_SIZE /\ total > 0)
  THEN merge_pop(Tail(current_doc), total - Len(Head(current_doc).t), len)
  ELSE [current_doc |-> current_doc, total |-> total]

RECURSIVE merge_loop(_, _, _, _)
merge_loop(splits, docs, current_doc, total) ==
  IF splits = <<>> THEN docs \o _join_docs(current_doc)
  ELSE LET d   == Head(splits)
           len == Len(d.t)
       IN  IF total + len > CHUNK_SIZE /\ current_doc # <<>>
           THEN LET p == merge_pop(current_doc, total, len)
                IN  merge_loop(Tail(splits), docs \o _join_docs(current_doc),
                               Append(p.current_doc, d), p.total + len)
           ELSE merge_loop(Tail(splits), docs, Append(current_doc, d), total + len)

_merge_splits(splits) == merge_loop(splits, <<>>, <<>>, 0)

RECURSIVE _split_text(_, _, _)
RECURSIVE split_loop(_, _, _, _)
split_loop(splits, new_separators, good_splits, final_chunks) ==
  IF splits = <<>>
  THEN IF good_splits # <<>> THEN final_chunks \o _merge_splits(good_splits)
                             ELSE final_chunks
  ELSE LET s == Head(splits)
       IN  IF Len(s.t) < CHUNK_SIZE
           THEN split_loop(Tail(splits), new_separators, Append(good_splits, s), final_chunks)
           ELSE LET flushed == IF good_splits # <<>>
                               THEN final_chunks \o _merge_splits(good_splits)
                               ELSE final_chunks
                    other   == IF new_separators = <<>> THEN <<s>>
                               ELSE _split_text(s.t, s.s, new_separators)
                IN  split_loop(Tail(splits), new_separators, <<>>, flushed \o other)

_split_text(text, base, separators) ==
  LET usable == { i \in 1..Len(separators) :
                    separators[i] = <<>> \/ find(text, separators[i], 0) # -1 }
      i      == IF usable = {} THEN Len(separators) ELSE Min(usable)
      separator      == separators[i]
      new_separators == IF usable = {} \/ separator = <<>> THEN <<>>
                        ELSE SubSeq(separators, i + 1, Len(separators))
  IN  split_loop(_split_text_with_regex(text, base, separator), new_separators, <<>>, <<>>)

\* splitter.split_text(full_text), with the position of every piece
split_text(text) == _split_text(text, 0, SEPARATORS)

\* ---------------------------------------------------------- chunk ids, urls
DigitChars == <<"0", "1", "2", "3", "4", "5", "6", "7", "8", "9">>

\* str(n) for n >= 0
RECURSIVE str(_)
str(n) == IF n < 10 THEN <<DigitChars[n + 1]>>
          ELSE str(n \div 10) \o <<DigitChars[(n % 10) + 1]>>

\* the index left out of the id
unique_id_without_index(vid, idx, suffix) == vid \o <<"_">> \o suffix

\* f"{video_id}_{index}_{str(uuid.uuid4())[:8]}"
unique_id(vid, idx, suffix) == vid \o <<"_">> \o str(idx) \o <<"_">> \o suffix

\* chunks numbered from 1
doc_numbered_from_one(vid, idx, chunk_text, ts, suffix) ==
  [ id           |-> unique_id(vid, idx, suffix),
    video_id     |-> vid,
    text_content |-> chunk_text,
    start_time   |-> ts,
    chunk_index  |-> idx + 1,
    source       |-> <<vid, ts>> ]

\* the chunk object of lines 125-135; the url keeps its two variable parts,
\* the video id and int(timestamp)
doc(vid, idx, chunk_text, ts, suffix) ==
  [ id           |-> unique_id(vid, idx, suffix),
    video_id     |-> vid,
    text_content |-> chunk_text,
    start_time   |-> ts,
    chunk_index  |-> idx,
    source       |-> <<vid, ts>> ]

\* the cursor kept on the service object and not reset by the next call
stale_search_pos(prev) == prev

\* the search position a call starts from (line 98); prev is the position the
\* previous call on this service object ended with
first_search_pos(prev) == 0

\* the search position after a match (line 117)
next_search_pos(start_index, chunk_text) == start_index + (Len(chunk_text) \div 2)

\* a piece found nowhere placed at the start of the text
locate_never_fails(text, chunk_text, pos) ==
  LET start_index == find(text, chunk_text, pos)
  IN  IF start_index # -1 THEN start_index
      ELSE IF find(text, chunk_text, 0) # -1 THEN find(text, chunk_text, 0) ELSE 0

\* lines 107-112: forward search from the cursor, then the retry from 0
locate(text, chunk_text, pos) ==
  LET start_index == find(text, chunk_text, pos)
  IN  IF start_index = -1 THEN find(text, chunk_text, 0) ELSE start_index

\* ------------------------------------------ upstream: Vertex AI and Pinecone
\* a text's embedding, reduced to one coordinate
embedding(text) == Len(text)

\* similarity of two embeddings: minus their distance, higher is closer
similarity(a, b) == IF a <= b THEN a - b ELSE b - a

\* a stable sort of [key, value] items by ascending key, as list.sort is;
\* this is the insertion of one item behind the items with keys <= its own
RECURSIVE insert_by_key(_, _)
insert_by_key(sorted, item) ==
  IF sorted = <<>> THEN <<item>>
  ELSE IF Head(sorted).key <= item.key
       THEN <<Head(sorted)>> \o insert_by_key(Tail(sorted), item)
       ELSE <<item>> \o sorted

RECURSIVE sort_loop(_, _)
sort_loop(items, sorted) ==
  IF items = <<>> THEN sorted
  ELSE sort_loop(Tail(items), insert_by_key(sorted, Head(items)))

sorted_by_key(items) == sort_loop(items, <<>>)

\* the metadata filter of a query: every field the filter names must agree
passes_filter(metadata, filter) ==
  \A k \in DOMAIN filter : metadata[k] = filter[k]

\* the first top_k of the ranked matches
top_matches(ranked, top_k) ==
  [ i \in 1..Min({top_k, Len(ranked)}) |-> ranked[i].value ]

\* the hits with their scores, keyed for the ranking
scored_hits(hits, vector) ==
  [ i \in 1..Len(hits) |->
      [ key   |-> 0 - similarity(vector, hits[i].values),
        value |-> [ id       |-> hits[i].id,
                    score    |-> similarity(vector, hits[i].values),
                    metadata |-> hits[i].metadata ] ] ]

\* index.query(vector, filter, top_k, include_metadata=True): the stored
\* vectors that pass the filter, most similar first, at most top_k of them
index_query(stored, vector, filter, top_k) ==
  LET Passes(v) == passes_filter(v.metadata, filter)
  IN  top_matches(sorted_by_key(scored_hits(SelectSeq(stored, Passes), vector)),
                  top_k)

\* one upstream call as it is logged
effect(op, arg) == [op |-> op, arg |-> arg]

\* ------------------------------------------------------- RetrievalService
TOP_K == 10

\* separator.join(parts)
RECURSIVE join(_, _)
join(separator, parts) ==
  IF parts = <<>> THEN <<>>
  ELSE IF Len(parts) = 1 THEN Head(parts)
       ELSE Head(parts) \o separator \o join(separator, Tail(parts))

\* the query sent without the video filter
search_all_videos(stored, query_vector, vid) ==
  index_query(stored, query_vector, <<>>, TOP_K)

\* _search_pinecone, lines 45-60, when the query succeeds
_search_pinecone(stored, query_vector, vid) ==
  index_query(stored, query_vector, [video_id |-> vid], TOP_K)

\* the source entry of lines 110-114
source_of(match) ==
  [ text       |-> match.metadata.text_content,
    start_time |-> match.metadata.start_time,
    score      |-> match.score ]

\* the loop of lines 100-114: a match without text is left out
RECURSIVE context_loop(_, _, _)
context_loop(ms, context_parts, sources) ==
  IF ms = <<>> THEN [context_parts |-> context_parts, sources |-> sources]
  ELSE LET match        == Head(ms)
           text_content == match.metadata.text_content
       IN  IF text_content # <<>>
           THEN context_loop(Tail(ms), Append(context_parts, text_content),
                             Append(sources, source_of(match)))
           ELSE context_loop(Tail(ms), context_parts, sources)

\* the parts joined by a single line break
context_on_single_lines(context_parts) == join(<<NL>>, context_parts)

\* line 118
context_string(context_parts) == join(<<NL, NL>>, context_parts)

\* what get_context hands back: a return value or an exception, with the
\* upstream calls made on the way and the matches the index delivered
outcome(raised, context_text, sources, made, ms) ==
  [ raised       |-> raised,
    context_text |-> context_text,
    sources      |-> sources,
    effects      |-> made,
    matches      |-> ms ]

\* lines 91-122: what is made of the matches
context_of(made, ms, built) ==
  IF ms = <<>> THEN outcome(FALSE, <<>>, <<>>, made, ms)
  ELSE outcome(FALSE, context_string(built.context_parts), built.sources, made, ms)

\* lines 95-122 for the matches ms
searched(made, ms) == context_of(made, ms, context_loop(ms, <<>>, <<>>))

\* lines 86-122, the part behind the guard of lines 78-80
retrieve(stored, query, vid, f) ==
  LET embed  == effect("get_embeddings",
                       [texts |-> <<query>>, task_type |-> "RETRIEVAL_QUERY"])
      search == effect("index.query",
                       [filter |-> [video_id |-> vid], top_k |-> TOP_K])
  IN  IF f.embed THEN outcome(TRUE, <<>>, <<>>, <<embed>>, <<>>)
      ELSE IF f.query THEN outcome(TRUE, <<>>, <<>>, <<embed, search>>, <<>>)
      ELSE searched(<<embed, search>>,
                    _search_pinecone(stored, embedding(query), vid))

\* get_context without its guard
get_context_unguarded(stored, query, vid, f) == retrieve(stored, query, vid, f)

\* get_context, lines 66-122
get_context(stored, query, vid, f) ==
  IF query = <<>> \/ vid = <<>>
  THEN outcome(FALSE, <<>>, <<>>, <<>>, <<>>)
  ELSE retrieve(stored, query, vid, f)

\* --------------------------------------------------------- SummaryService
PINECONE_MAX_TOP_K == 10000

\* the model's reply to a prompt, a text of one token; only which prompt it
\* answers is kept
reply(prompt) == <<[reply_to |-> prompt]>>

\* the upstream model fails once it has answered f.llm_ok calls (-1: never)
llm_fails(f, answered) == f.llm_ok # -1 /\ answered >= f.llm_ok

\* the values of sorted items
values_of(sorted) == [ i \in 1..Len(sorted) |-> sorted[i].value ]

\* the chunks in the order the index returned them
chunks_as_returned(ms) == ms

\* matches.sort(key=start_time), line 103
chunks_by_start_time(ms) ==
  values_of(sorted_by_key([ i \in 1..Len(ms) |->
                              [key |-> ms[i].metadata.start_time, value |-> ms[i]] ]))

\* lines 100-106: the matches sorted
fetched_chunks(made, ms) ==
  [raised |-> FALSE, chunks |-> chunks_by_start_time(ms), returned |-> ms,
   effects |-> made]

\* _fetch_all_chunks, lines 81-110: the query with a dummy vector, then the
\* sort by start time
_fetch_all_chunks(stored, vid, f) ==
  LET search == effect("index.query",
                       [filter |-> [video_id |-> vid], top_k |-> PINECONE_MAX_TOP_K])
  IN  IF f.query
      THEN [raised |-> TRUE, chunks |-> <<>>, returned |-> <<>>,
            effects |-> <<search>>]
      ELSE fetched_chunks(<<search>>,
                          index_query(stored, 0, [video_id |-> vid],
                                      PINECONE_MAX_TOP_K))

RECURSIVE texts_of(_)
texts_of(chunks) ==
  IF chunks = <<>> THEN <<>>
  ELSE LET text == Head(chunks).metadata.text_content
       IN  (IF text # <<>> THEN <<text>> ELSE <<>>) \o texts_of(Tail(chunks))

\* _chunks_to_transcript, lines 112-119
_chunks_to_transcript(chunks) == join(<<NL, NL>>, texts_of(chunks))

\* a batch is closed by the character budget alone
RECURSIVE batch_loop_without_cap(_, _, _, _)
batch_loop_without_cap(chunks, closed, current_batch, current_chars) ==
  IF chunks = <<>>
  THEN IF current_batch # <<>> THEN Append(closed, current_batch) ELSE closed
  ELSE LET chunk       == Head(chunks)
           chunk_chars == Len(chunk.metadata.text_content)
           over        == current_chars + chunk_chars > MAX_CONTEXT_CHARS
                            /\ current_batch # <<>>
       IN  batch_loop_without_cap(
             Tail(chunks),
             IF over THEN Append(closed, current_batch) ELSE closed,
             Append(IF over THEN <<>> ELSE current_batch, chunk),
             (IF over THEN 0 ELSE current_chars) + chunk_chars)

\* the loop of lines 133-151 and the last batch of lines 152-153
RECURSIVE batch_loop(_, _, _, _)
batch_loop(chunks, closed, current_batch, current_chars) ==
  IF chunks = <<>>
  THEN IF current_batch # <<>> THEN Append(closed, current_batch) ELSE closed
  ELSE LET chunk       == Head(chunks)
           chunk_chars == Len(chunk.metadata.text_content)
           over        == current_chars + chunk_chars > MAX_CONTEXT_CHARS
                            /\ current_batch # <<>>
           closed1     == IF over THEN Append(closed, current_batch) ELSE closed
           batch1      == Append(IF over THEN <<>> ELSE current_batch, chunk)
           chars1      == (IF over THEN 0 ELSE current_chars) + chunk_chars
           full        == Len(batch1) >= MAX_CHUNKS_PER_BATCH
       IN  batch_loop(Tail(chunks),
                      IF full THEN Append(closed1, batch1) ELSE closed1,
                      IF full THEN <<>> ELSE batch1,
                      IF full THEN 0 ELSE chars1)

\* all the chunks in one batch
one_batch(chunks) == <<chunks>>

\* _batch_chunks, lines 121-153
_batch_chunks(chunks) == batch_loop(chunks, <<>>, <<>>, 0)

\* the prompt of _summarize_batch, lines 155-160
summarize_prompt(chunks) ==
  [template |-> "SUMMARY_PROMPT", transcript |-> _chunks_to_transcript(chunks)]

\* the parts numbered in batch order but listed last batch first
combine_prompt_reversed(summaries) ==
  [ template  |-> "COMBINE_PROMPT",
    summaries |-> [ i \in 1..Len(summaries) |->
                      [part |-> i, text |-> summaries[Len(summaries) + 1 - i]] ] ]

\* the prompt of _combine_summaries, lines 162-167: "Part i" before each summary
combine_prompt(summaries) ==
  [ template  |-> "COMBINE_PROMPT",
    summaries |-> [ i \in 1..Len(summaries) |-> [part |-> i, text |-> summaries[i]] ] ]

\* one llm.generate_content call after `answered` earlier ones
generate_content(prompt, f, answered) ==
  [ raised  |-> llm_fails(f, answered),
    text    |-> reply(prompt),
    effects |-> <<effect("generate_content", prompt)>> ]

\* the loop of lines 213-217
RECURSIVE summarize_batches(_, _, _, _)
summarize_batches(bs, batch_summaries, made, f) ==
  IF bs = <<>>
  THEN [raised |-> FALSE, batch_summaries |-> batch_summaries, effects |-> made]
  ELSE LET call == generate_content(summarize_prompt(Head(bs)), f, Len(made))
       IN  IF call.raised
           THEN [raised |-> TRUE, batch_summaries |-> batch_summaries,
                 effects |-> made \o call.effects]
           ELSE summarize_batches(Tail(bs), Append(batch_summaries, call.text),
                                  made \o call.effects, f)

\* the strategy test of line 202
single_pass(total_chars, count) ==
  total_chars <= MAX_CONTEXT_CHARS /\ count <= MAX_CHUNKS_PER_BATCH

RECURSIVE total_chars_of(_)
total_chars_of(chunks) ==
  IF chunks = <<>> THEN 0
  ELSE Len(Head(chunks).metadata.text_content) + total_chars_of(Tail(chunks))

\* the samples taken at fifths of the video
sample_fifths(n) ==
  <<0, n \div 5, (2 * n) \div 5, (3 * n) \div 5, n - 1>>

\* line 228
sample_indices(n) ==
  <<0, n \div 4, n \div 2, (3 * n) \div 4, n - 1>>

\* the source with the chunk's whole text
sampled_source_whole(chunk) ==
  [ text       |-> chunk.metadata.text_content \o <<".", ".", ".">>,
    start_time |-> chunk.metadata.start_time,
    score      |-> 1 ]

\* the source entry of lines 235-239; the score 1.0 is written 1
sampled_source(chunk) ==
  LET text == chunk.metadata.text_content
  IN  [ text       |-> Slice(text, 0, Min({SOURCE_TEXT_CHARS, Len(text)}))
                         \o <<".", ".", ".">>,
        start_time |-> chunk.metadata.start_time,
        score      |-> 1 ]

\* the loop of lines 231-239
sampled_sources(chunks) ==
  LET InRange(idx) == 0 <= idx /\ idx < Len(chunks)
      kept         == SelectSeq(sample_indices(Len(chunks)), InRange)
  IN  [ i \in 1..Len(kept) |-> sampled_source(chunks[kept[i] + 1]) ]

\* what generate_full_summary hands back: a return value or an exception,
\* the upstream calls made, the matches the index delivered, and its locals
summary_outcome(raised, summary, sources, made, ms, chunks, bs) ==
  [ raised     |-> raised,
    summary    |-> summary,
    sources    |-> sources,
    effects    |-> made,
    matches    |-> ms,
    all_chunks |-> chunks,
    batches    |-> bs ]

\* lines 241-242, or the exception that ends the call: `calls` is the
\* outcome of the model calls made for the summary
summary_return(fetched, bs, calls) ==
  IF calls.raised
  THEN summary_outcome(TRUE, <<>>, <<>>, fetched.effects \o calls.effects,
                       fetched.returned, fetched.chunks, bs)
  ELSE summary_outcome(FALSE, calls.text, sampled_sources(fetched.chunks),
                       fetched.effects \o calls.effects,
                       fetched.returned, fetched.chunks, bs)

\* a model call made after the calls of `many`, unless one of those raised
then_call(many, call) ==
  IF many.raised THEN [raised |-> TRUE, text |-> <<>>, effects |-> many.effects]
  ELSE [raised |-> call.raised, text |-> call.text,
        effects |-> many.effects \o call.effects]

\* lines 219-223: the only batch summary, or the merge of several
combined(many, f) ==
  IF many.raised \/ Len(many.batch_summaries) # 1
  THEN then_call(many, generate_content(combine_prompt(many.batch_summaries), f,
                                        Len(many.effects)))
  ELSE [raised |-> FALSE, text |-> many.batch_summaries[1], effects |-> many.effects]

\* lines 209-223
hierarchical(fetched, bs, f) ==
  summary_return(fetched, bs, combined(summarize_batches(bs, <<>>, <<>>, f), f))

\* every video batched and its batch summaries merged, a single one too
summarize_always_merged(fetched, f) ==
  LET many == summarize_batches(_batch_chunks(fetched.chunks), <<>>, <<>>, f)
  IN  IF fetched.raised \/ fetched.chunks = <<>>
      THEN summary_outcome(fetched.raised, <<>>, <<>>, fetched.effects,
                           <<>>, <<>>, <<>>)
      ELSE summary_return(
             fetched, _batch_chunks(fetched.chunks),
             then_call(many, generate_content(combine_prompt(many.batch_summaries),
                                              f, Len(many.effects))))

\* lines 189-242, behind the fetch
summarize_fetched(fetched, f) ==
  IF fetched.raised \/ fetched.chunks = <<>>
  THEN summary_outcome(fetched.raised, <<>>, <<>>, fetched.effects, <<>>, <<>>, <<>>)
  ELSE IF single_pass(total_chars_of(fetched.chunks), Len(fetched.chunks))
  THEN summary_return(fetched, <<>>,
                      generate_content(summarize_prompt(fetched.chunks), f, 0))
  ELSE hierarchical(fetched, _batch_chunks(fetched.chunks), f)

\* generate_full_summary, lines 169-242
generate_full_summary(stored, vid, f) ==
  summarize_fetched(_fetch_all_chunks(stored, vid, f), f)

\* ------------------------------------------------- classifier, LLMService
\* the summary chosen unless the classifier names the specific query
classify_for_summary_by_default(query, said) ==
  [ intent  |-> IF said = "SPECIFIC_QUERY" THEN "SPECIFIC_QUERY"
                ELSE "FULL_VIDEO_SUMMARY",
    effects |-> <<effect("classify", [query |-> query, said |-> said])>> ]

\* IntentClassifier.classify, lines 80-114: `said` is what the classifier
\* model does with the prompt, answer with a word or fail
classify(query, said) ==
  IF query = <<>> \/ strip(query) = <<>>
  THEN [intent |-> "SPECIFIC_QUERY", effects |-> <<>>]
  ELSE [ intent  |-> IF said = "FULL_VIDEO_SUMMARY" THEN "FULL_VIDEO_SUMMARY"
                     ELSE "SPECIFIC_QUERY",
         effects |-> <<effect("classify", [query |-> query, said |-> said])>> ]

APOLOGY == <<"I apologize, but I encountered an error">>
NOT_FOUND == <<"I couldn't find any relevant information">>
NO_SUMMARY == <<"I couldn't generate a summary">>

\* the prompt built without the conversation
generate_answer_without_history(query, context, chat_history, f) ==
  LET call == generate_content(
                [ template |-> "SYSTEM_INSTRUCTION", context |-> context,
                  history |-> <<>>, question |-> query ], f, 0)
  IN  [ text    |-> IF call.raised THEN APOLOGY ELSE call.text,
        effects |-> call.effects ]

\* LLMService.generate_answer, lines 60-89: a failed call becomes an apology
generate_answer(query, context, chat_history, f) ==
  LET call == generate_content(
                [ template |-> "SYSTEM_INSTRUCTION", context |-> context,
                  history |-> chat_history, question |-> query ], f, 0)
  IN  [ text    |-> IF call.raised THEN APOLOGY ELSE call.text,
        effects |-> call.effects ]

\* --------------------------------------------------------- main.py: /chat
response(status_code, text, sources, made) ==
  [status_code |-> status_code, response |-> text, sources |-> sources,
   effects |-> made]

\* lines 196-205
summary_response(made, summed) ==
  IF summed.raised THEN response(500, <<>>, <<>>, made \o summed.effects)
  ELSE IF summed.summary = <<>>
  THEN response(200, NO_SUMMARY, <<>>, made \o summed.effects)
  ELSE response(200, summed.summary, summed.sources, made \o summed.effects)

\* lines 231-234
answer_response(made, sources, answer) ==
  response(200, answer.text, sources, made \o answer.effects)

\* the answer generated whatever the retrieval found
always_answered(made, retrieved, req, f) ==
  IF retrieved.raised THEN response(500, <<>>, <<>>, made \o retrieved.effects)
  ELSE answer_response(made \o retrieved.effects, retrieved.sources,
                       generate_answer(req.query, retrieved.context_text,
                                       req.history, f))

\* lines 214-234
retrieval_response(made, retrieved, req, f) ==
  IF retrieved.raised THEN response(500, <<>>, <<>>, made \o retrieved.effects)
  ELSE IF retrieved.context_text = <<>>
  THEN response(200, NOT_FOUND, <<>>, made \o retrieved.effects)
  ELSE answer_response(made \o retrieved.effects, retrieved.sources,
                       generate_answer(req.query, retrieved.context_text,
                                       req.history, f))

\* lines 191-234: the route the intent chooses
routed(intent, stored, req, f) ==
  IF intent.intent = "FULL_VIDEO_SUMMARY"
  THEN summary_response(intent.effects,
                        generate_full_summary(stored, req.video_id, f))
  ELSE retrieval_response(intent.effects,
                          get_context(stored, req.query, req.video_id, f), req, f)

\* chat_endpoint, lines 173-238; HTTPException is an Exception, so the 400 of
\* line 184 is caught by line 236 and leaves as a 500
chat_endpoint(stored, req, f, said) ==
  IF req.query = <<>> \/ req.video_id = <<>>
  THEN response(500, <<>>, <<>>, <<>>)
  ELSE routed(classify(req.query, said), stored, req, f)

\* ------------------------------------------------- chunk_transcript, whole
\* lines 97-137 as one function: the documents of the pieces, in piece order
RECURSIVE chunk_loop(_, _, _, _, _, _, _)
chunk_loop(vid, text_map, pieces, idx, search_pos, suffix, docs) ==
  IF idx >= Len(pieces) THEN docs
  ELSE LET chunk_text  == pieces[idx + 1]
           start_index == locate(text_map.full_text, chunk_text, search_pos)
       IN  IF start_index # -1
           THEN chunk_loop(vid, text_map, pieces, idx + 1,
                           next_search_pos(start_index, chunk_text), suffix,
                           Append(docs,
                                  doc(vid, idx, chunk_text,
                                      _find_timestamp_for_chunk(start_index,
                                                                text_map.offset_map),
                                      suffix)))
           ELSE chunk_loop(vid, text_map, pieces, idx + 1, search_pos, suffix, docs)

\* the strings split_text returns (line 93)
piece_texts(pieces) == [ i \in 1..Len(pieces) |-> pieces[i].t ]

chunk_text_map(vid, text_map, suffix) ==
  chunk_loop(vid, text_map, piece_texts(split_text(text_map.full_text)), 0, 0,
             suffix, <<>>)

\* lines 82-95: nothing to chunk without a transcript
chunk_documents(vid, transcript, suffix) ==
  IF transcript = <<>> THEN <<>>
  ELSE chunk_text_map(vid, _create_text_map(transcript), suffix)

\* ------------------------------------------------------- EmbeddingService
EMBEDDING_BATCH_SIZE == 10

UPSERT_BATCH_SIZE == 100

\* data[i:i + batch_size] for i in range(0, len(data), batch_size)
RECURSIVE _generate_batches(_, _)
_generate_batches(data, batch_size) ==
  IF data = <<>> THEN <<>>
  ELSE IF Len(data) <= batch_size THEN <<data>>
  ELSE <<SubSeq(data, 1, batch_size)>>
         \o _generate_batches(SubSeq(data, batch_size + 1, Len(data)), batch_size)

\* what process_and_store upserts for a chunk (embedding_service.py 66-70)
vector_of(d) ==
  [ id       |-> d.id,
    values   |-> embedding(d.text_content),
    metadata |-> [ video_id     |-> d.video_id,
                   text_content |-> d.text_content,
                   start_time   |-> d.start_time,
                   chunk_index  |-> d.chunk_index ] ]

\* the vectors of one batch, in the batch's order
embedded(batch) == [ i \in 1..Len(batch) |-> vector_of(batch[i]) ]

\* the first batch whose call raises ends the embedding phase
RECURSIVE embed_loop_stopping_at_failure(_, _, _, _, _)
embed_loop_stopping_at_failure(bs, failed, k, vectors_to_upsert, made) ==
  IF k > Len(bs) THEN [vectors_to_upsert |-> vectors_to_upsert, made |-> made]
  ELSE IF k \in failed
       THEN [vectors_to_upsert |-> vectors_to_upsert,
             made |-> Append(made, effect("get_embeddings",
                                          [texts     |-> [ i \in 1..Len(bs[k]) |->
                                                             bs[k][i].text_content ],
                                           task_type |-> "RETRIEVAL_DOCUMENT"]))]
       ELSE embed_loop_stopping_at_failure(
              bs, failed, k + 1, vectors_to_upsert \o embedded(bs[k]),
              Append(made, effect("get_embeddings",
                                  [texts     |-> [ i \in 1..Len(bs[k]) |->
                                                     bs[k][i].text_content ],
                                   task_type |-> "RETRIEVAL_DOCUMENT"])))

\* phase 1, lines 57-78: one get_embeddings call per batch; a batch whose call
\* raises is logged and left out (continue)
RECURSIVE embed_loop(_, _, _, _, _)
embed_loop(bs, failed, k, vectors_to_upsert, made) ==
  IF k > Len(bs) THEN [vectors_to_upsert |-> vectors_to_upsert, made |-> made]
  ELSE embed_loop(bs, failed, k + 1,
                  IF k \in failed THEN vectors_to_upsert
                  ELSE vectors_to_upsert \o embedded(bs[k]),
                  Append(made, effect("get_embeddings",
                                      [texts     |-> [ i \in 1..Len(bs[k]) |->
                                                       bs[k][i].text_content ],
                                       task_type |-> "RETRIEVAL_DOCUMENT"])))

\* index.upsert of one vector: a stored vector of the same id is replaced where
\* it stands, a new id is added
RECURSIVE upsert_one(_, _, _)
upsert_one(stored, v, i) ==
  IF i > Len(stored) THEN Append(stored, v)
  ELSE IF stored[i].id = v.id THEN [stored EXCEPT ![i] = v]
  ELSE upsert_one(stored, v, i + 1)

RECURSIVE upsert(_, _)
upsert(stored, batch) ==
  IF batch = <<>> THEN stored
  ELSE upsert(upsert_one(stored, Head(batch), 1), Tail(batch))

\* phase 2, lines 82-100: one index.upsert call per batch of the vectors; the
\* first call that raises ends the loop and the exception is re-raised
RECURSIVE upsert_loop(_, _, _, _, _)
upsert_loop(stored, bs, k, upsert_ok, made) ==
  IF k > Len(bs) THEN [raised |-> FALSE, stored |-> stored, made |-> made]
  ELSE IF upsert_ok # -1 /\ k > upsert_ok
       THEN [raised |-> TRUE, stored |-> stored,
             made |-> Append(made, effect("index.upsert", bs[k]))]
       ELSE upsert_loop(upsert(stored, bs[k]), bs, k + 1, upsert_ok,
                        Append(made, effect("index.upsert", bs[k])))

store_outcome(raised, returned, stored, made) ==
  [raised |-> raised, returned |-> returned, stored |-> stored, made |-> made]

stored_vectors(upserted) ==
  store_outcome(upserted.raised, ~upserted.raised, upserted.stored, upserted.made)

\* lines 82-100
store_vectors(stored, embedding_phase, f) ==
  IF embedding_phase.vectors_to_upsert = <<>>
  THEN store_outcome(FALSE, FALSE, stored, embedding_phase.made)
  ELSE stored_vectors(upsert_loop(stored,
                                  _generate_batches(embedding_phase.vectors_to_upsert,
                                                    UPSERT_BATCH_SIZE),
                                  1, f.upsert_ok, embedding_phase.made))

\* lines 57-78
embed_documents(docs, f) ==
  embed_loop(_generate_batches(docs, EMBEDDING_BATCH_SIZE), f.failed_batches,
             1, <<>>, <<>>)

\* lines 39-100; f names the embedding batches whose call raises and how many
\* upsert calls succeed (-1: all of them)
process_and_store(stored, docs, f) ==
  IF docs = <<>> THEN store_outcome(FALSE, FALSE, stored, <<>>)
  ELSE store_vectors(stored, embed_documents(docs, f), f)

\* --------------------------------------------- main.py: /process-video
VIDEO_ID_CHARS == 11

IdChars == { "v", "w", "0", "_", "-" }

\* the forms the pattern accepts, by the text that precedes the id
WatchPrefix == <<"y", "o", "u", "t", "u", "b", "e", ".", "c", "o", "m", "/",
                 "w", "a", "t", "c", "h", "?", "v", "=">>

ShortPrefix == <<"y", "o", "u", "t", "u", ".", "b", "e", "/">>

\* whether the text has prefix at 0-based position i
has_at(text, prefix, i) ==
  /\ i + Len(prefix) <= Len(text)
  /\ \A j \in 1..Len(prefix) : text[i + j] = prefix[j]

\* re.search of lines 58-60 on the two forms: the leftmost place where a prefix
\* is followed by VIDEO_ID_CHARS id characters; <<>> stands for no match
id_after(text, prefix, i) ==
  IF /\ has_at(text, prefix, i)
     /\ i + Len(prefix) + VIDEO_ID_CHARS <= Len(text)
     /\ \A j \in 1..VIDEO_ID_CHARS : text[i + Len(prefix) + j] \in IdChars
  THEN SubSeq(text, i + Len(prefix) + 1, i + Len(prefix) + VIDEO_ID_CHARS)
  ELSE <<>>

RECURSIVE search_id(_, _)
search_id(text, i) ==
  IF i >= Len(text) THEN <<>>
  ELSE IF id_after(text, WatchPrefix, i) # <<>> THEN id_after(text, WatchPrefix, i)
  ELSE IF id_after(text, ShortPrefix, i) # <<>> THEN id_after(text, ShortPrefix, i)
  ELSE search_id(text, i + 1)

\* lines 53-73: raises InvalidYouTubeURLError for an empty url and for one the
\* pattern does not match
extract_video_id(url) ==
  IF url = <<>> THEN [raised |-> TRUE, video_id |-> <<>>]
  ELSE [raised |-> search_id(url, 0) = <<>>, video_id |-> search_id(url, 0)]

\* lines 49-83: one stored vector of the video is enough; a failed query is
\* reported as "not there"
check_video_exists(stored, vid, query_fails) ==
  IF query_fails THEN FALSE
  ELSE Len(index_query(stored, 0, [video_id |-> vid], 1)) > 0

\* ------------------------------------------------------------------- state
VARIABLES
  pc,                  \* where the call stands: "idle", "loop", "done", "resolve"
  video_id,            \* argument of chunk_transcript
  transcript_data,     \* argument of chunk_transcript
  full_text,           \* local of chunk_transcript
  offset_map,          \* local of chunk_transcript / argument of the resolver
  raw_chunks,          \* local: the splitter's pieces
  index,               \* local: enumerate position in raw_chunks
  current_search_pos,  \* local: the cursor
  documents,           \* local, then the returned value
  raw_starts,          \* bookkeeping: where each piece really begins (-1: unknown)
  located,             \* bookkeeping: start_index of each piece handled (-1: skipped)
  cursors,             \* bookkeeping: the cursor before each piece and after the last
  calls,               \* how many calls of chunk_transcript were started
  prev_documents,      \* text, start_time, chunk_index of the previous call's chunks
  chunk_start_index,   \* argument of _find_timestamp_for_chunk when called alone
  timestamp,           \* its result
  vectors,             \* what the vector index holds, in stored order
  request,             \* the arguments of the service call or the request body
  faults,              \* which upstream calls fail while the request is served
  effects,             \* the upstream calls made, in the order they were made
  matches,             \* what the index returned to the service
  all_chunks,          \* local of generate_full_summary
  batches,             \* local of generate_full_summary: <<>> on the single pass
  result,              \* what the call returned or raised
  submit_pc,           \* where each /process-video request stands
  submit_url,          \* the url each request carries
  submit_local,        \* locals of each request: video_id, vectors_to_upsert
  submit_response      \* what each request was answered

inputVars == <<video_id, transcript_data>>
loopVars  == <<full_text, offset_map, raw_chunks, index, current_search_pos,
               documents, raw_starts, located, cursors>>
callVars  == <<calls, prev_documents>>
queryVars == <<chunk_start_index, timestamp>>
serviceVars == <<vectors, request, faults, effects, matches, all_chunks,
                 batches, result>>
submitVars == <<submit_pc, submit_url, submit_local, submit_response>>
vars == <<pc, inputVars, loopVars, callVars, queryVars, serviceVars, submitVars>>

\* the two /process-video requests of the concurrent specification
Submitters == {1, 2}

NoSubmitLocals == [video_id |-> <<>>, vectors_to_upsert |-> <<>>]

NoResponse == [status_code |-> 0, message |-> "none"]

\* no /process-video request is under way
NoSubmit ==
  /\ submit_pc = [r \in Submitters |-> "idle"]
  /\ submit_url = [r \in Submitters |-> <<>>]
  /\ submit_local = [r \in Submitters |-> NoSubmitLocals]
  /\ submit_response = [r \in Submitters |-> NoResponse]

NoLocals ==
  /\ full_text = <<>>
  /\ offset_map = <<>>
  /\ raw_chunks = <<>>
  /\ index = 0
  /\ current_search_pos = 0
  /\ documents = <<>>
  /\ raw_starts = <<>>
  /\ located = <<>>
  /\ cursors = <<>>

\* the retrieval and summary services take no part in chunking
NoService ==
  /\ vectors = <<>>
  /\ request = [query |-> <<>>, video_id |-> <<>>, history |-> <<>>]
  /\ faults = [embed |-> FALSE, query |-> FALSE, llm_ok |-> -1]
  /\ effects = <<>>
  /\ matches = <<>>
  /\ all_chunks = <<>>
  /\ batches = <<>>
  /\ result = [raised |-> FALSE]

Init ==
  /\ pc = "idle"
  /\ NoSubmit
  /\ NoService
  /\ video_id \in VideoIds
  /\ transcript_data \in Transcripts
  /\ NoLocals
  /\ calls = 0
  /\ prev_documents = <<>>
  /\ chunk_start_index = 0
  /\ timestamp = 0

\* ------------------------------------------------------- chunk_transcript
\* lines 82-98 with the pieces `pieces` coming back from the splitter
Enter(pieces) ==
  /\ pc = "idle"
  /\ calls' = calls + 1
  /\ IF transcript_data = <<>>
     THEN /\ pc' = "done"
          /\ documents' = <<>>
          /\ full_text' = <<>>
          /\ offset_map' = <<>>
          /\ raw_chunks' = <<>>
          /\ raw_starts' = <<>>
          /\ index' = 0
          /\ current_search_pos' = first_search_pos(current_search_pos)
          /\ located' = <<>>
          /\ cursors' = <<>>
     ELSE LET m == _create_text_map(transcript_data)
              p == pieces
          IN  /\ pc' = "loop"
              /\ full_text' = m.full_text
              /\ offset_map' = m.offset_map
              /\ raw_chunks' = [i \in 1..Len(p) |-> p[i].t]
              /\ raw_starts' = [i \in 1..Len(p) |-> p[i].s]
              /\ documents' = <<>>
              /\ index' = 0
              /\ current_search_pos' = first_search_pos(current_search_pos)
              /\ located' = <<>>
              /\ cursors' = <<first_search_pos(current_search_pos)>>
  /\ UNCHANGED <<inputVars, prev_documents, queryVars, serviceVars, submitVars>>

\* the call with the configured splitter (line 93)
ChunkStart ==
  Enter(split_text(_create_text_map(transcript_data).full_text))

\* one iteration of the loop of lines 101-138
ChunkStep ==
  /\ pc = "loop"
  /\ index < Len(raw_chunks)
  /\ \E suffix \in Suffixes :
       LET chunk_text  == raw_chunks[index + 1]
           start_index == locate(full_text, chunk_text, current_search_pos)
       IN  IF start_index # -1
           THEN LET ts == _find_timestamp_for_chunk(start_index, offset_map)
                IN  /\ current_search_pos' = next_search_pos(start_index, chunk_text)
                    /\ documents' = Append(documents,
                                           doc(video_id, index, chunk_text, ts, suffix))
                    /\ located' = Append(located, start_index)
                    /\ cursors' = Append(cursors, next_search_pos(start_index, chunk_text))
           ELSE /\ current_search_pos' = current_search_pos
                /\ documents' = documents
                /\ located' = Append(located, -1)
                /\ cursors' = Append(cursors, current_search_pos)
  /\ index' = index + 1
  /\ UNCHANGED <<pc, inputVars, full_text, offset_map, raw_chunks, raw_starts,
                 callVars, queryVars, serviceVars, submitVars>>

\* lines 140-146: the loop is over, documents is returned
ChunkReturn ==
  /\ pc = "loop"
  /\ index = Len(raw_chunks)
  /\ pc' = "done"
  /\ UNCHANGED <<inputVars, loopVars, callVars, queryVars, serviceVars, submitVars>>

Compared(docs) ==
  [i \in 1..Len(docs) |-> [ text_content |-> docs[i].text_content,
                            start_time   |-> docs[i].start_time,
                            chunk_index  |-> docs[i].chunk_index ]]

\* the caller keeps what was returned and calls again with the same arguments
ChunkAgain ==
  /\ pc = "done"
  /\ calls = 1
  /\ pc' = "idle"
  /\ prev_documents' = Compared(documents)
  /\ UNCHANGED <<inputVars, loopVars, calls, queryVars, serviceVars, submitVars>>

Next == ChunkStart \/ ChunkStep \/ ChunkReturn \/ ChunkAgain

Spec == Init /\ [][Next]_vars

\* ------------------------------------------- the loop under any splitter
\* chunk_transcript as written does not rely on what the splitter returns:
\* here the pieces are any short sequence of texts, some of them occurring
\* nowhere in full_text.
PieceTexts == { <<"a">>, <<"z">> }

PieceSeqs == SeqsUpTo({ [s |-> -1, t |-> t] : t \in PieceTexts }, MaxPieces)

ChunkStartAnyPieces == \E p \in PieceSeqs : Enter(p)

NextAnySplitter == ChunkStartAnyPieces \/ ChunkStep \/ ChunkReturn

SpecAnySplitter == Init /\ [][NextAnySplitter]_vars

\* ------------------------------------- _find_timestamp_for_chunk on its own
\* offset maps as the data model has them: offsets strictly increasing
OffsetMaps ==
  { m \in SeqsUpTo((0..MaxOffset) \X (0..MaxTime), MaxSegs) :
      \A i \in 1..(Len(m) - 1) : m[i][1] < m[i + 1][1] }

LastOffset(m) == IF m = <<>> THEN 0 ELSE m[Len(m)][1]

\* the positions asked for: before the first entry, at and between entries,
\* past the last one
Positions(m) == (-2)..(LastOffset(m) + 1)

InitResolve ==
  /\ pc = "resolve"
  /\ NoSubmit
  /\ NoService
  /\ video_id \in VideoIds
  /\ \/ /\ transcript_data \in Transcripts
        /\ offset_map = _create_text_map(transcript_data).offset_map
        /\ full_text = _create_text_map(transcript_data).full_text
     \/ /\ transcript_data = <<>>
        /\ offset_map \in OffsetMaps
        /\ full_text = <<>>
  /\ raw_chunks = <<>>
  /\ index = 0
  /\ current_search_pos = 0
  /\ documents = <<>>
  /\ raw_starts = <<>>
  /\ located = <<>>
  /\ cursors = <<>>
  /\ calls = 0
  /\ prev_documents = <<>>
  /\ chunk_start_index = 0
  /\ timestamp = 0

Resolve ==
  /\ pc \in {"resolve", "resolved"}
  /\ \E p \in Positions(offset_map) :
       /\ chunk_start_index' = p
       /\ timestamp' = _find_timestamp_for_chunk(p, offset_map)
  /\ pc' = "resolved"
  /\ UNCHANGED <<inputVars, loopVars, callVars, serviceVars, submitVars>>

NextResolve == Resolve

SpecResolve == InitResolve /\ [][NextResolve]_vars

\* ------------------------------------------------- the services on their own
OtherVideo == <<"w">>
NoVideo == <<"u">>

Copies(c, n) == [ i \in 1..n |-> c ]

\* the chunks of an indexed video: texts are never empty, chunk i is the
\* i-th piece of the transcript
StoredChunk(vid, i, chunk_text, ts) ==
  vector_of(doc(vid, i, chunk_text, ts, <<"0", "a">>))

Reversed(s) == [ i \in 1..Len(s) |-> s[Len(s) + 1 - i] ]

\* one upstream failure at most while a request is served
Faults ==
  { [embed |-> e, query |-> q, llm_ok |-> k] :
      e \in BOOLEAN, q \in BOOLEAN, k \in {-1, 0, 1, 2} }
  \ { f \in [embed : BOOLEAN, query : BOOLEAN, llm_ok : {-1, 0, 1, 2}] :
        (IF f.embed THEN 1 ELSE 0) + (IF f.query THEN 1 ELSE 0)
          + (IF f.llm_ok # -1 THEN 1 ELSE 0) > 1 }

Queries == { <<>>, <<SP>>, <<"q">>, <<"q", "q", "q">> }

Histories == { <<>>, <<[role |-> "user", content |-> <<"h">>]>> }

Requests ==
  [ query    : Queries,
    video_id : VideoIds \cup {OtherVideo, NoVideo, <<>>},
    history  : Histories ]

\* an index holding n chunks of one video: texts of one to three characters
\* that begin with the video's id, start times in transcript order
IndexedVideo(vid, n) ==
  [ i \in 1..n |-> StoredChunk(vid, i - 1, vid \o Copies("x", (i - 1) % 3), i - 1) ]

AskIndexes ==
  { IF other_first THEN IndexedVideo(OtherVideo, m) \o IndexedVideo(v, n)
    ELSE IndexedVideo(v, n) \o IndexedVideo(OtherVideo, m) :
      v \in VideoIds, n \in 0..MaxStored, m \in 0..MaxOther,
      other_first \in BOOLEAN }

InitAsk ==
  /\ pc = "idle"
  /\ NoSubmit
  /\ video_id = <<>>
  /\ transcript_data = <<>>
  /\ NoLocals
  /\ calls = 0
  /\ prev_documents = <<>>
  /\ chunk_start_index = 0
  /\ timestamp = 0
  /\ vectors \in AskIndexes
  /\ request \in Requests
  /\ faults \in Faults
  /\ effects = <<>>
  /\ matches = <<>>
  /\ all_chunks = <<>>
  /\ batches = <<>>
  /\ result = [raised |-> FALSE]

\* RetrievalService.get_context called with the request's query and video
GetContext ==
  /\ pc = "idle"
  /\ LET r == get_context(vectors, request.query, request.video_id, faults)
     IN  /\ effects' = r.effects
         /\ matches' = r.matches
         /\ result' = [ raised       |-> r.raised,
                        context_text |-> r.context_text,
                        sources      |-> r.sources ]
  /\ pc' = "get_context"
  /\ UNCHANGED <<inputVars, loopVars, callVars, queryVars, vectors, request,
                 faults, all_chunks, batches, submitVars>>

\* what the classifier model does: it names an intent, says something else,
\* or the call fails
ClassifierSays == { "FULL_VIDEO_SUMMARY", "SPECIFIC_QUERY", "UNKNOWN", "raises" }

\* POST /chat
ChatEndpoint ==
  /\ pc = "idle"
  /\ \E said \in ClassifierSays :
       LET r == chat_endpoint(vectors, request, faults, said)
       IN  /\ effects' = r.effects
           /\ result' = [ status_code |-> r.status_code,
                          response    |-> r.response,
                          sources     |-> r.sources ]
  /\ pc' = "chat"
  /\ UNCHANGED <<inputVars, loopVars, callVars, queryVars, vectors, request,
                 faults, matches, all_chunks, batches, submitVars>>

NextAsk == GetContext \/ ChatEndpoint

SpecAsk == InitAsk /\ [][NextAsk]_vars

\* chunk texts of the summary's index: short, middling, and one that alone
\* is over the character budget
SummaryTexts ==
  { Copies("s", 1), Copies("m", 3), Copies("l", MAX_CONTEXT_CHARS + 1) }

\* n chunks of a video with the texts `texts`; start times either all
\* different or equal in pairs
SummaryVideo(vid, texts, paired) ==
  [ i \in 1..Len(texts) |->
      StoredChunk(vid, i - 1, texts[i],
                  IF paired THEN (i - 1) \div 2 ELSE i - 1) ]

SummaryIndexes ==
  { (IF reversed THEN Reversed(SummaryVideo(v, texts, paired))
     ELSE SummaryVideo(v, texts, paired)) \o IndexedVideo(OtherVideo, 1) :
      v \in VideoIds, texts \in SeqsUpTo(SummaryTexts, MaxFetched),
      paired \in BOOLEAN, reversed \in BOOLEAN }

InitSummary ==
  /\ pc = "idle"
  /\ NoSubmit
  /\ video_id = <<>>
  /\ transcript_data = <<>>
  /\ NoLocals
  /\ calls = 0
  /\ prev_documents = <<>>
  /\ chunk_start_index = 0
  /\ timestamp = 0
  /\ vectors \in SummaryIndexes
  /\ request \in { r \in Requests : r.query = <<"q">> /\ r.history = <<>>
                                     /\ r.video_id \in VideoIds }
  /\ faults \in { f \in Faults : ~f.embed }
  /\ effects = <<>>
  /\ matches = <<>>
  /\ all_chunks = <<>>
  /\ batches = <<>>
  /\ result = [raised |-> FALSE]

\* SummaryService.generate_full_summary called with the request's video
GenerateFullSummary ==
  /\ pc = "idle"
  /\ LET r == generate_full_summary(vectors, request.video_id, faults)
     IN  /\ effects' = r.effects
         /\ matches' = r.matches
         /\ all_chunks' = r.all_chunks
         /\ batches' = r.batches
         /\ result' = [ raised  |-> r.raised,
                        summary |-> r.summary,
                        sources |-> r.sources ]
  /\ pc' = "summary"
  /\ UNCHANGED <<inputVars, loopVars, callVars, queryVars, vectors, request,
                 faults, submitVars>>

NextSummary == GenerateFullSummary

SpecSummary == InitSummary /\ [][NextSummary]_vars

\* ------------------------------------------- process_and_store on its own
\* the documents chunk_transcript hands over: one per piece, ids told apart by
\* the chunk index
StoreDocuments(n) ==
  [ i \in 1..n |-> doc(<<"v">>, i - 1, Copies("a", 1 + (i % 3)), i % 2, <<"0", "a">>) ]

BatchCount(n) == (n + EMBEDDING_BATCH_SIZE - 1) \div EMBEDDING_BATCH_SIZE

\* any embedding call may raise, and the first upsert call may
StoreFaults(n) ==
  [ failed_batches : SUBSET (1..BatchCount(n)), upsert_ok : {-1, 0} ]

InitStore ==
  /\ pc = "idle"
  /\ NoSubmit
  /\ video_id = <<>>
  /\ transcript_data = <<>>
  /\ full_text = <<>>
  /\ offset_map = <<>>
  /\ raw_chunks = <<>>
  /\ index = 0
  /\ current_search_pos = 0
  /\ \E n \in 0..MaxDocuments :
       /\ documents = StoreDocuments(n)
       /\ faults \in StoreFaults(n)
  /\ raw_starts = <<>>
  /\ located = <<>>
  /\ cursors = <<>>
  /\ calls = 0
  /\ prev_documents = <<>>
  /\ chunk_start_index = 0
  /\ timestamp = 0
  /\ vectors \in { IndexedVideo(OtherVideo, m) : m \in 0..1 }
  /\ request = [query |-> <<>>, video_id |-> <<>>, history |-> <<>>]
  /\ effects = <<>>
  /\ matches = <<>>
  /\ all_chunks = <<>>
  /\ batches = <<>>
  /\ result = [raised |-> FALSE]

\* EmbeddingService.process_and_store(documents)
ProcessAndStore ==
  /\ pc = "idle"
  /\ pc' = "stored"
  /\ LET out == process_and_store(vectors, documents, faults)
     IN  /\ vectors' = out.stored
         /\ effects' = out.made
         /\ result' = [raised |-> out.raised, returned |-> out.returned]
  /\ UNCHANGED <<inputVars, loopVars, callVars, queryVars, request, faults,
                 matches, all_chunks, batches, submitVars>>

NextStore == ProcessAndStore

SpecStore == InitStore /\ [][NextStore]_vars

\* --------------------------------------- two /process-video requests at once
\* the video both requests may name
SubmitVideo == Copies("v", VIDEO_ID_CHARS)

\* an empty url, one that is no YouTube url, and the video in two forms
SubmitUrls ==
  { <<>>,
    <<"n", "o">>,
    WatchPrefix \o SubmitVideo,
    ShortPrefix \o SubmitVideo \o <<"?", "t">> }

\* what the transcript source holds for the video
SubmitTranscripts ==
  { <<Segment(<<"a">>, 0)>>,
    <<Segment(<<"a", " ", "b", "b", "b", "b">>, 0), Segment(<<"b", "b", "b", "b">>, 1)>> }

InitSubmit ==
  /\ pc = "idle"
  /\ submit_pc = [r \in Submitters |-> "received"]
  /\ submit_url \in [Submitters -> SubmitUrls]
  /\ submit_local = [r \in Submitters |-> NoSubmitLocals]
  /\ submit_response = [r \in Submitters |-> NoResponse]
  /\ video_id = <<>>
  /\ transcript_data \in SubmitTranscripts
  /\ NoLocals
  /\ calls = 0
  /\ prev_documents = <<>>
  /\ chunk_start_index = 0
  /\ timestamp = 0
  /\ vectors \in { IndexedVideo(OtherVideo, m) : m \in 0..1 }
  /\ request = [query |-> <<>>, video_id |-> <<>>, history |-> <<>>]
  /\ faults = [embed |-> FALSE, query |-> FALSE, llm_ok |-> -1]
  /\ effects = <<>>
  /\ matches = <<>>
  /\ all_chunks = <<>>
  /\ batches = <<>>
  /\ result = [raised |-> FALSE]

\* the request is answered
Respond(r, status_code, message) ==
  /\ submit_pc' = [submit_pc EXCEPT ![r] = "done"]
  /\ submit_response' = [submit_response EXCEPT
                           ![r] = [status_code |-> status_code, message |-> message]]

\* lines 132-143 and 168-171: the id is taken from the url and looked up in
\* the index; InvalidYouTubeURLError is no HTTPException and ends as a 500
CheckExists(r) ==
  /\ submit_pc[r] = "received"
  /\ IF extract_video_id(submit_url[r]).raised
     THEN /\ Respond(r, 500, "invalid url")
          /\ UNCHANGED submit_local
     ELSE \E query_fails \in BOOLEAN :
            IF check_video_exists(vectors, extract_video_id(submit_url[r]).video_id,
                                  query_fails)
            THEN /\ Respond(r, 200, "Video loaded from cache.")
                 /\ UNCHANGED submit_local
            ELSE /\ submit_pc' = [submit_pc EXCEPT ![r] = "missing"]
                 /\ submit_local' =
                      [submit_local EXCEPT
                         ![r].video_id = extract_video_id(submit_url[r]).video_id]
                 /\ UNCHANGED submit_response
  /\ UNCHANGED <<pc, inputVars, loopVars, callVars, queryVars, serviceVars, submit_url>>

\* the embedding phase of process_and_store on the chunks (line 156)
Embed(r, docs, failed) ==
  IF embed_documents(docs, [failed_batches |-> failed]).vectors_to_upsert = <<>>
  THEN /\ Respond(r, 500, "Failed to store embeddings in database.")
       /\ UNCHANGED submit_local
  ELSE /\ submit_pc' = [submit_pc EXCEPT ![r] = "embedded"]
       /\ submit_local' =
            [submit_local EXCEPT
               ![r].vectors_to_upsert =
                  embed_documents(docs, [failed_batches |-> failed]).vectors_to_upsert]
       /\ UNCHANGED submit_response

\* lines 145-158: transcript, chunks and their embeddings; nothing here reads
\* or writes the index
Prepare(r) ==
  /\ submit_pc[r] = "missing"
  /\ \E got \in {"transcript", "nothing", "raises"}, suffix \in Suffixes,
        failed \in SUBSET {1} :
       IF got = "raises"
       THEN /\ Respond(r, 500, "transcript error")
            /\ UNCHANGED submit_local
       ELSE IF got = "nothing"
       THEN /\ Respond(r, 400, "Could not retrieve transcript.")
            /\ UNCHANGED submit_local
       ELSE IF chunk_documents(submit_local[r].video_id, transcript_data, suffix) = <<>>
       THEN /\ Respond(r, 500, "Failed to generate text chunks.")
            /\ UNCHANGED submit_local
       ELSE Embed(r, chunk_documents(submit_local[r].video_id, transcript_data, suffix),
                  failed)
  /\ UNCHANGED <<pc, inputVars, loopVars, callVars, queryVars, serviceVars, submit_url>>

\* the upsert phase of process_and_store and the answer (lines 156-171); the
\* vectors of one request fit one index.upsert call
Store(r) ==
  /\ submit_pc[r] = "embedded"
  /\ \E upsert_ok \in {-1, 0} :
       LET out == upsert_loop(vectors,
                              _generate_batches(submit_local[r].vectors_to_upsert,
                                                UPSERT_BATCH_SIZE),
                              1, upsert_ok, <<>>)
       IN  /\ vectors' = out.stored
           /\ IF out.raised
              THEN Respond(r, 500, "upsert error")
              ELSE Respond(r, 200, "Video processed and indexed successfully.")
  /\ UNCHANGED <<pc, inputVars, loopVars, callVars, queryVars, request, faults,
                 effects, matches, all_chunks, batches, result, submit_url,
                 submit_local>>

NextSubmit == \E r \in Submitters : CheckExists(r) \/ Prepare(r) \/ Store(r)

SpecSubmit == InitSubmit /\ [][NextSubmit]_vars

\* ------------------------------------------------------------ definitions
\* used by the properties below
\* the start time of the last entry whose offset is <= p, 0 when there is none
TimeAt(m, p) ==
  LET before == { i \in 1..Len(m) : m[i][1] <= p }
  IN  IF before = {} THEN 0 ELSE m[Max(before)][2]

InSourceOrder(segs) ==
  \A i \in 1..(Len(segs) - 1) : segs[i].start <= segs[i + 1].start

BuiltFromSegments ==
  offset_map = _create_text_map(transcript_data).offset_map

\* ------------------------------------------------------------- properties

\* C1: whatever the offset map and the position, the resolver returns the
\* start time of the last entry whose offset is <= the position, and 0 when
\* no entry has such an offset (the empty map included).
C1_ResolveLastEntryAtOrBefore ==
  pc = "resolved" => timestamp = TimeAt(offset_map, chunk_start_index)

\* C1 witness: a position exactly at the offset of a later entry of a map
\* whose entries carry different times has been resolved.
C1_Witness ==
  /\ pc = "resolved"
  /\ Len(offset_map) >= 2
  /\ chunk_start_index = offset_map[2][1]
  /\ offset_map[1][2] # offset_map[2][2]
  /\ timestamp = offset_map[2][2]

\* C10 as stated: on the offset map built from any segment sequence, a
\* query at a position no smaller than the previous query's never resolves
\* to a smaller time.
C10_MonotoneForAnySegments ==
  [][ (pc = "resolved" /\ BuiltFromSegments /\ chunk_start_index <= chunk_start_index')
        => timestamp <= timestamp' ]_vars

\* C10 amended: on the offset map built from a segment sequence whose start
\* times are non-negative and non-decreasing, a query at a position no smaller
\* than the previous query's never resolves to a smaller time.
C10_MonotoneForOrderedSegments ==
  [][ (/\ pc = "resolved"
       /\ BuiltFromSegments
       /\ InSourceOrder(transcript_data)
       /\ chunk_start_index <= chunk_start_index')
        => timestamp <= timestamp' ]_vars

\* C10 witness: on a map built from two segments in source order with
\* different start times, a position in the second segment has been resolved
\* to the later time.
C10_Witness ==
  /\ pc = "resolved"
  /\ BuiltFromSegments
  /\ Len(transcript_data) >= 2
  /\ transcript_data[1].start < transcript_data[2].start
  /\ chunk_start_index >= offset_map[2][1]
  /\ timestamp > offset_map[1][2]
  /\ InSourceOrder(transcript_data)

Returned == pc = "done"

\* the pieces handled so far
Handled == 1..Len(located)

NonDecreasingTimes(docs) ==
  \A i \in 1..(Len(docs) - 1) : docs[i].start_time <= docs[i + 1].start_time

Blank(t) == strip(t) = <<>>

\* C2: every emitted chunk's start_time is the start time of the last
\* offset-map entry at or before the position where the chunk's text really
\* begins in full_text (the position the splitter cut it at).
C2_TimestampOfTrueStart ==
  \A i \in 1..Len(documents) :
    documents[i].start_time = TimeAt(offset_map, raw_starts[documents[i].chunk_index + 1])

\* C3: when the segments are in source order (non-decreasing start times),
\* the returned chunks have non-decreasing start_time in chunk_index order.
C3_TimestampsNonDecreasing ==
  (Returned /\ InSourceOrder(transcript_data)) => NonDecreasingTimes(documents)

\* C4 as stated: whenever at least one chunk is emitted, the first chunk
\* carries the first segment's start time, and a transcript the splitter
\* keeps in one piece yields exactly one chunk carrying that time.
C4_FirstChunkHasFirstStart ==
  /\ documents # <<>> => documents[1].start_time = transcript_data[1].start
  /\ (Returned /\ Len(raw_chunks) = 1) => Len(documents) = 1

\* C4 amended: whenever at least one chunk is emitted and the first segment's
\* text is not blank, the first chunk carries the first segment's start time;
\* a transcript the splitter keeps in one piece yields exactly one chunk.
C4_FirstChunkHasFirstStartUnlessBlank ==
  /\ (documents # <<>> /\ ~Blank(transcript_data[1].text))
       => documents[1].start_time = transcript_data[1].start
  /\ (Returned /\ Len(raw_chunks) = 1) => Len(documents) = 1

\* C4 witness: a two-segment transcript kept in one piece has returned its
\* single chunk, stamped with the first segment's start time, which differs
\* from the second segment's.
C4_Witness ==
  /\ Returned
  /\ Len(transcript_data) = 2
  /\ ~Blank(transcript_data[1].text)
  /\ ~Blank(transcript_data[2].text)
  /\ transcript_data[1].start # transcript_data[2].start
  /\ Len(raw_chunks) = 1
  /\ Len(documents) = 1
  /\ documents[1].start_time = transcript_data[1].start

\* C5: a call with no segments returns the empty sequence, and so does a
\* call none of whose pieces occurs anywhere in full_text; either way the
\* call comes to its return.
C5_EmptyWhenNothingToEmit ==
  /\ (pc = "loop" /\ index = Len(raw_chunks)) => ENABLED ChunkReturn
  /\ (Returned /\ transcript_data = <<>>) => documents = <<>>
  /\ (Returned /\ \A i \in 1..Len(raw_chunks) : find(full_text, raw_chunks[i], 0) = -1)
       => documents = <<>>

\* C5 witness: a call on a non-empty transcript has returned after all of
\* its two or more pieces failed to be located.
C5_Witness ==
  /\ Returned
  /\ transcript_data # <<>>
  /\ Len(raw_chunks) >= 2
  /\ \A i \in 1..Len(raw_chunks) : find(full_text, raw_chunks[i], 0) = -1
  /\ documents = <<>>

\* C6: a piece found neither forward from the cursor nor from position 0
\* adds no chunk and leaves the cursor where it was, and the loop goes on to
\* the next piece; every chunk emitted has its text in full_text exactly at
\* the offset its timestamp was resolved from.
C6_SkipAndExactOffsets ==
  [][ /\ ( /\ pc = "loop"
           /\ index < Len(raw_chunks)
           /\ find(full_text, raw_chunks[index + 1], current_search_pos) = -1
           /\ find(full_text, raw_chunks[index + 1], 0) = -1 )
        => /\ documents' = documents
           /\ current_search_pos' = current_search_pos
           /\ index' = index + 1
           /\ pc' = "loop"
      /\ Returned' => (transcript_data' = <<>> \/ Len(located') = Len(raw_chunks'))
      /\ \A i \in 1..Len(documents') :
           LET d  == documents'[i]
               at == located'[d.chunk_index + 1]
           IN  /\ OccursAt(full_text', d.text_content, at)
               /\ d.start_time = TimeAt(offset_map', at) ]_vars

\* C6 witness: a call has returned in which a piece was skipped and a later
\* piece was still located and emitted.
C6_Witness ==
  /\ Returned
  /\ \E i, j \in Handled :
       /\ i < j
       /\ located[i] = -1
       /\ located[j] # -1
       /\ \E k \in 1..Len(documents) : documents[k].chunk_index = j - 1

\* C7: every emitted chunk's chunk_index is the position of its piece in
\* raw_chunks, so the indices increase strictly along documents and a
\* skipped piece leaves a gap.
C7_ChunkIndexIsPiecePosition ==
  /\ \A i \in 1..Len(documents) :
       /\ documents[i].chunk_index \in 0..(Len(raw_chunks) - 1)
       /\ documents[i].chunk_index + 1 \in Handled
       /\ raw_chunks[documents[i].chunk_index + 1] = documents[i].text_content
       /\ located[documents[i].chunk_index + 1] # -1
  /\ \A i \in 1..(Len(documents) - 1) :
       documents[i].chunk_index < documents[i + 1].chunk_index
  /\ Returned =>
       { documents[i].chunk_index : i \in 1..Len(documents) }
         = { j - 1 : j \in { k \in Handled : located[k] # -1 } }

\* C7 witness: a call has returned two chunks with a gap between their
\* indices, left by a skipped piece.
C7_Witness ==
  /\ Returned
  /\ Len(documents) >= 2
  /\ documents[1].chunk_index = 0
  /\ documents[2].chunk_index = 2
  /\ located[2] = -1

\* C8: within one call the ids of the emitted chunks are pairwise distinct,
\* whatever the random suffixes, equal suffixes included.
C8_IdsDistinct ==
  \A i, j \in 1..Len(documents) : i # j => documents[i].id # documents[j].id

\* the random part of an id: what follows the last underscore
SuffixOf(id) == SubSeq(id, Max({ k \in 1..Len(id) : id[k] = "_" }) + 1, Len(id))

\* C8 witness: a call has returned two or more chunks that all drew the same
\* suffix.
C8_Witness ==
  /\ Returned
  /\ Len(documents) >= 2
  /\ \A i, j \in 1..Len(documents) : SuffixOf(documents[i].id) = SuffixOf(documents[j].id)

Made(op) == \E i \in 1..Len(effects) : effects[i].op = op

\* the positions of the index that hold chunks of video vid
StoredFor(vid) ==
  { i \in 1..Len(vectors) : vectors[i].metadata.video_id = vid }

\* the classifier sent the request to the summary
AskedForSummary ==
  \E i \in 1..Len(effects) :
    effects[i].op = "classify" /\ effects[i].arg.said = "FULL_VIDEO_SUMMARY"

\* the request names a query and a video, and the index has nothing for it
NothingIndexed ==
  /\ request.query # <<>>
  /\ request.video_id # <<>>
  /\ ~faults.embed
  /\ ~faults.query
  /\ StoredFor(request.video_id) = {}

\* C11: called with an empty or missing query or video id, get_context
\* returns the empty context and no sources, and has called neither the
\* embedding model nor the vector index.
C11_EmptyArgumentsReturnEmpty ==
  (pc = "get_context" /\ (request.query = <<>> \/ request.video_id = <<>>)) =>
    /\ ~result.raised
    /\ result.context_text = <<>>
    /\ result.sources = <<>>
    /\ ~Made("get_embeddings")
    /\ ~Made("index.query")

\* get_context has returned for an empty query although the video is indexed
\* and nothing upstream would have failed
C11_Witness ==
  /\ pc = "get_context"
  /\ request.query = <<>>
  /\ StoredFor(request.video_id) # {}
  /\ ~faults.embed
  /\ ~faults.query

\* C12: when the index has no match for the video, get_context returns the
\* empty context and no sources without raising, and /chat answers 200 with
\* the nothing-found text, no sources, and no answer-generation call.
C12_NoMatchesIsNotAnError ==
  /\ (pc = "get_context" /\ NothingIndexed) =>
       /\ Made("index.query")
       /\ ~result.raised
       /\ result.context_text = <<>>
       /\ result.sources = <<>>
  /\ (pc = "chat" /\ NothingIndexed /\ ~AskedForSummary) =>
       /\ Made("index.query")
       /\ result.status_code = 200
       /\ result.response = NOT_FOUND
       /\ result.sources = <<>>
       /\ ~Made("generate_content")

\* /chat has answered a question about a video the index does not hold,
\* while it holds another video
C12_Witness ==
  /\ pc = "chat"
  /\ NothingIndexed
  /\ ~AskedForSummary
  /\ vectors # <<>>
  /\ result.response = NOT_FOUND

\* the texts of the matches with the separator between every two of them
SeparatedTexts(ms) ==
  [ i \in 1..(2 * Len(ms) - 1) |->
      IF i % 2 = 1 THEN ms[(i + 1) \div 2].metadata.text_content
      ELSE <<NL, NL>> ]

\* C13: with at least one match, the sources are parallel to the matches
\* (as many, same order, each with its match's text, start time and score)
\* and the context is the match texts in that order, two line breaks between.
C13_SourcesParallelToMatches ==
  (pc = "get_context" /\ matches # <<>>) =>
    /\ ~result.raised
    /\ Len(result.sources) = Len(matches)
    /\ \A i \in 1..Len(matches) :
         /\ result.sources[i].text = matches[i].metadata.text_content
         /\ result.sources[i].start_time = matches[i].metadata.start_time
         /\ result.sources[i].score = matches[i].score
    /\ result.context_text = Concat(SeparatedTexts(matches))

\* several matches came back, not in the order of the transcript
C13_Witness ==
  /\ pc = "get_context"
  /\ Len(matches) >= 3
  /\ matches[1].metadata.chunk_index > matches[2].metadata.chunk_index
  /\ matches[1].score > matches[3].score
  /\ Len(result.sources) = Len(matches)

\* the characters that begin the ids of the other indexed videos
OtherVideoMarks ==
  { vectors[i].metadata.video_id[1] :
      i \in { j \in 1..Len(vectors) :
                vectors[j].metadata.video_id # request.video_id } }

\* C14: get_context returns at most min(TOP_K, chunks indexed for the video)
\* sources, every source is a chunk of that video, and no text of another
\* video is in the context.
C14_OnlyTheVideosChunks ==
  pc = "get_context" =>
    /\ Len(result.sources) <= Min({TOP_K, Cardinality(StoredFor(request.video_id))})
    /\ \A i \in 1..Len(result.sources) :
         \E j \in StoredFor(request.video_id) :
           /\ vectors[j].metadata.text_content = result.sources[i].text
           /\ vectors[j].metadata.start_time = result.sources[i].start_time
    /\ \A i \in 1..Len(result.sources) :
         result.sources[i].text[1] \notin OtherVideoMarks
    /\ \A k \in 1..Len(result.context_text) :
         result.context_text[k] \notin OtherVideoMarks

\* the video has more chunks than TOP_K, another video is indexed as well,
\* and TOP_K sources came back
C14_Witness ==
  /\ pc = "get_context"
  /\ Cardinality(StoredFor(request.video_id)) > TOP_K
  /\ Cardinality(StoredFor(request.video_id)) < Len(vectors)
  /\ Len(result.sources) = TOP_K


\* ------------------------------------------------ properties of the summary
\* the positions of the log that hold model calls with this prompt template
Prompted(template) ==
  { i \in 1..Len(effects) :
      effects[i].op = "generate_content" /\ effects[i].arg.template = template }

\* the characters of all the chunk texts indexed for video vid
RECURSIVE StoredChars(_)
StoredChars(S) ==
  IF S = {} THEN 0
  ELSE LET i == CHOOSE j \in S : TRUE
       IN  Len(vectors[i].metadata.text_content) + StoredChars(S \ {i})

\* generate_full_summary is over, the index answered, the video is indexed
Summarized ==
  /\ pc = "summary"
  /\ ~faults.query
  /\ StoredFor(request.video_id) # {}

\* C15 as stated: a video whose chunk texts total no more than
\* MAX_CONTEXT_CHARS gets exactly one batch-summarization call and no merge
\* call.
C15_OneCallWithinBudget ==
  (Summarized /\ StoredChars(StoredFor(request.video_id)) <= MAX_CONTEXT_CHARS) =>
    /\ Cardinality(Prompted("SUMMARY_PROMPT")) = 1
    /\ Prompted("COMBINE_PROMPT") = {}

\* C15: a video whose chunk texts total no more than MAX_CONTEXT_CHARS and
\* that has no more than MAX_CHUNKS_PER_BATCH chunks gets exactly one
\* batch-summarization call, for all its chunks, and no merge call.
C15_OneCallWithinBudgetAndCap ==
  (/\ Summarized
   /\ StoredChars(StoredFor(request.video_id)) <= MAX_CONTEXT_CHARS
   /\ Cardinality(StoredFor(request.video_id)) <= MAX_CHUNKS_PER_BATCH) =>
    /\ Cardinality(Prompted("SUMMARY_PROMPT")) = 1
    /\ Prompted("COMBINE_PROMPT") = {}
    /\ batches = <<>>
    /\ \A i \in Prompted("SUMMARY_PROMPT") :
         effects[i].arg.transcript = Concat(SeparatedTexts(all_chunks))

\* a video of several chunks within both limits was summarized and returned
C15_Witness ==
  /\ Summarized
  /\ ~result.raised
  /\ Len(all_chunks) >= 2
  /\ Len(all_chunks) <= MAX_CHUNKS_PER_BATCH
  /\ StoredChars(StoredFor(request.video_id)) = MAX_CONTEXT_CHARS
  /\ Cardinality(Prompted("SUMMARY_PROMPT")) = 1

\* C16: when partitioning gave n > 1 batches and the summary was returned,
\* the model calls are n batch summaries, the i-th for batch i, then one
\* merge that is given the n summaries in batch order; its reply is the
\* returned summary.
C16_BatchCallsThenOneMerge ==
  (pc = "summary" /\ ~result.raised /\ Len(batches) > 1) =>
    LET n == Len(batches)
    IN  /\ Len(effects) = n + 2
        /\ effects[1].op = "index.query"
        /\ Prompted("SUMMARY_PROMPT") = 2..(n + 1)
        /\ Prompted("COMBINE_PROMPT") = {n + 2}
        /\ \A i \in 1..n :
             effects[i + 1].arg.transcript = Concat(SeparatedTexts(batches[i]))
        /\ Len(effects[n + 2].arg.summaries) = n
        /\ \A i \in 1..n :
             effects[n + 2].arg.summaries[i]
               = [part |-> i, text |-> reply(effects[i + 1].arg)]
        /\ result.summary = reply(effects[n + 2].arg)

\* a summary of three or more batches with different texts was returned
C16_Witness ==
  /\ pc = "summary"
  /\ ~result.raised
  /\ Len(batches) >= 3
  /\ batches[1] # batches[2]
  /\ Cardinality(Prompted("COMBINE_PROMPT")) = 1

\* C17: on the hierarchical path no batch is empty, and the batches read in
\* order hold every fetched chunk exactly once, in ascending start time.
C17_BatchesAreTheChunksInTimeOrder ==
  (pc = "summary" /\ batches # <<>>) =>
    LET flat == Concat(batches)
    IN  /\ \A b \in 1..Len(batches) : batches[b] # <<>>
        /\ Len(flat) = Len(matches)
        /\ \A i \in 1..Len(matches) :
             Cardinality({ k \in 1..Len(flat) : flat[k] = matches[i] }) = 1
        /\ \A k \in 1..(Len(flat) - 1) :
             flat[k].metadata.start_time <= flat[k + 1].metadata.start_time

\* the index returned the chunks out of time order and they went into
\* several batches
C17_Witness ==
  /\ pc = "summary"
  /\ Len(batches) >= 2
  /\ \E i \in 1..(Len(matches) - 1) :
       matches[i].metadata.start_time > matches[i + 1].metadata.start_time

\* the characters of a batch
BatchChars(batch) == Len(Concat([ i \in 1..Len(batch) |-> batch[i].metadata.text_content ]))

\* C18: every batch has at most MAX_CHUNKS_PER_BATCH chunks and at most
\* MAX_CONTEXT_CHARS characters unless it is a single chunk; every batch
\* but the last, which ends with the chunks, was closed because it was full
\* or because the next chunk would have gone over the character budget.
C18_BatchesWithinLimits ==
  (pc = "summary" /\ batches # <<>>) =>
    /\ \A b \in 1..Len(batches) :
         /\ Len(batches[b]) <= MAX_CHUNKS_PER_BATCH
         /\ BatchChars(batches[b]) <= MAX_CONTEXT_CHARS \/ Len(batches[b]) = 1
    /\ \A b \in 1..(Len(batches) - 1) :
         \/ Len(batches[b]) = MAX_CHUNKS_PER_BATCH
         \/ BatchChars(batches[b]) + Len(batches[b + 1][1].metadata.text_content)
              > MAX_CONTEXT_CHARS

\* one batch is a single chunk over the budget, one was closed full, one was
\* closed by the character budget before it was full
C18_Witness ==
  /\ pc = "summary"
  /\ \E b \in 1..Len(batches) : BatchChars(batches[b]) > MAX_CONTEXT_CHARS
  /\ \E b \in 1..(Len(batches) - 1) :
       /\ Len(batches[b]) = MAX_CHUNKS_PER_BATCH
       /\ BatchChars(batches[b]) + Len(batches[b + 1][1].metadata.text_content)
            <= MAX_CONTEXT_CHARS
  /\ \E b \in 1..(Len(batches) - 1) :
       /\ Len(batches[b]) < MAX_CHUNKS_PER_BATCH
       /\ Len(batches[b]) > 1

\* C19: for n >= 5 chunks in time order the sources are the chunks at
\* indices 0, n div 4, n div 2, 3n div 4 and n-1, in that order, each with
\* its chunk's start time and the score 1.0.
C19_SourcesAtQuarters ==
  (pc = "summary" /\ ~result.raised /\ Len(all_chunks) >= 5) =>
    LET n     == Len(all_chunks)
        cited == <<0, n \div 4, n \div 2, (3 * n) \div 4, n - 1>>
    IN  /\ Len(result.sources) = 5
        /\ \A k \in 1..5 :
             /\ result.sources[k].start_time
                  = all_chunks[cited[k] + 1].metadata.start_time
             /\ result.sources[k].score = 1

\* six chunks with different start times were summarized
C19_Witness ==
  /\ pc = "summary"
  /\ ~result.raised
  /\ Len(all_chunks) = 6
  /\ \A i \in 1..5 :
       all_chunks[i].metadata.start_time < all_chunks[i + 1].metadata.start_time
  /\ Len(result.sources) = 5

\* C20 as stated: five sources for a video of at least five chunks, fewer
\* than five for a video of fewer, and no chunk cited twice (so never more
\* sources than chunks).
C20_SourcesNeverRepeat ==
  (pc = "summary" /\ ~result.raised /\ all_chunks # <<>>) =>
    /\ Len(all_chunks) >= 5 => Len(result.sources) = 5
    /\ Len(all_chunks) < 5 => Len(result.sources) < 5
    /\ Len(result.sources) <= Len(all_chunks)


\* the chunks the summary cites, in the order of line 228
CitedChunks ==
  LET n == Len(all_chunks)
  IN  [ k \in 1..5 |->
          all_chunks[<<0, n \div 4, n \div 2, (3 * n) \div 4, n - 1>>[k] + 1] ]

\* the first n characters of a text
FirstChars(text, n) == [ i \in 1..(IF Len(text) < n THEN Len(text) ELSE n) |-> text[i] ]

ELLIPSIS == <<".", ".", ".">>

\* C21 as stated: every source of a summary has a text of at most
\* SOURCE_TEXT_CHARS characters, the first SOURCE_TEXT_CHARS characters of
\* its chunk's text.
C21_SourceTextIsThePrefix ==
  (pc = "summary" /\ ~result.raised /\ all_chunks # <<>>) =>
    \A k \in 1..Len(result.sources) :
      /\ Len(result.sources[k].text) <= SOURCE_TEXT_CHARS
      /\ result.sources[k].text
           = FirstChars(CitedChunks[k].metadata.text_content, SOURCE_TEXT_CHARS)

\* C21: every source of a summary has as its text the first
\* SOURCE_TEXT_CHARS characters of its chunk's text followed by "...", at
\* most SOURCE_TEXT_CHARS + 3 characters.
C21_SourceTextIsThePrefixAndEllipsis ==
  (pc = "summary" /\ ~result.raised /\ all_chunks # <<>>) =>
    \A k \in 1..Len(result.sources) :
      /\ Len(result.sources[k].text) <= SOURCE_TEXT_CHARS + 3
      /\ result.sources[k].text
           = FirstChars(CitedChunks[k].metadata.text_content, SOURCE_TEXT_CHARS)
               \o ELLIPSIS

\* a summary cites a chunk longer than SOURCE_TEXT_CHARS and one that is not
C21_Witness ==
  /\ pc = "summary"
  /\ ~result.raised
  /\ Len(result.sources) = 5
  /\ Len(CitedChunks[1].metadata.text_content) > SOURCE_TEXT_CHARS
  /\ Len(result.sources[1].text) = SOURCE_TEXT_CHARS + 3
  /\ Len(CitedChunks[5].metadata.text_content) < SOURCE_TEXT_CHARS


\* ------------------------------------------------- properties of the routing
\* /chat has served a request that names a query and a video
Asked ==
  /\ pc = "chat"
  /\ request.query # <<>>
  /\ request.video_id # <<>>

\* the positions of the log where the summary engine called upstream
SummaryCalls ==
  { i \in 1..Len(effects) :
      \/ effects[i].op = "index.query" /\ effects[i].arg.top_k = PINECONE_MAX_TOP_K
      \/ effects[i].op = "generate_content"
           /\ effects[i].arg.template \in {"SUMMARY_PROMPT", "COMBINE_PROMPT"} }

\* the positions of the log where retrieval or answer generation called upstream
RetrievalCalls ==
  { i \in 1..Len(effects) :
      \/ effects[i].op = "get_embeddings"
      \/ effects[i].op = "index.query" /\ effects[i].arg.top_k = TOP_K
      \/ effects[i].op = "generate_content"
           /\ effects[i].arg.template = "SYSTEM_INSTRUCTION" }

\* the classifier was called and did not answer with an intent
ClassifierFailed ==
  \E i \in 1..Len(effects) :
    effects[i].op = "classify" /\ effects[i].arg.said \in {"raises", "UNKNOWN"}

\* C22: when the classifier call raises, the query is blank, or the
\* classifier's output does not name the full-summary intent, the request
\* takes the retrieval route: the summary engine makes no call, and the
\* request succeeds unless the embedding or the index query fails.
C22_ClassifierFailureMeansSpecificQuery ==
  (Asked /\ ~AskedForSummary) =>
    /\ SummaryCalls = {}
    /\ Made("get_embeddings")
    /\ (~faults.embed /\ ~faults.query) => result.status_code = 200

\* the classifier failed on a question about an indexed video and the
\* question was answered
C22_Witness ==
  /\ Asked
  /\ ClassifierFailed
  /\ StoredFor(request.video_id) # {}
  /\ result.status_code = 200
  /\ result.sources # <<>>


\* the texts of the sources with the separator between every two of them
SeparatedSourceTexts(sources) ==
  [ i \in 1..(2 * Len(sources) - 1) |->
      IF i % 2 = 1 THEN sources[(i + 1) \div 2].text ELSE <<NL, NL>> ]

\* the positions of the log that hold the answer-generation call
AnswerCalls ==
  { i \in 1..Len(effects) :
      effects[i].op = "generate_content"
        /\ effects[i].arg.template = "SYSTEM_INSTRUCTION" }

\* C23: a request routed to the summary makes summary calls only, none of
\* them given the history; any other request makes retrieval calls only, the
\* embedding first, and the answer-generation call, if made, is the last
\* call, comes after the index query, is made exactly when context was
\* retrieved, and is given that context, the history and the question.
C23_ExactlyOneEngine ==
  Asked =>
    /\ AskedForSummary =>
         /\ RetrievalCalls = {}
         /\ SummaryCalls # {}
         /\ \A i \in SummaryCalls : "history" \notin DOMAIN effects[i].arg
    /\ ~AskedForSummary =>
         /\ SummaryCalls = {}
         /\ RetrievalCalls # {}
         /\ effects[Min(RetrievalCalls)].op = "get_embeddings"
         /\ Cardinality(AnswerCalls) <= 1
         /\ \A i \in AnswerCalls :
              /\ i = Len(effects)
              /\ effects[i - 1].op = "index.query"
              /\ effects[i].arg.context # <<>>
              /\ effects[i].arg.context = Concat(SeparatedSourceTexts(result.sources))
              /\ effects[i].arg.history = request.history
              /\ effects[i].arg.question = request.query
         /\ AnswerCalls = {} <=>
              \/ faults.embed
              \/ faults.query
              \/ StoredFor(request.video_id) = {}

\* a question with history about an indexed video was answered from
\* several retrieved chunks
C23_Witness ==
  /\ Asked
  /\ ~AskedForSummary
  /\ request.history # <<>>
  /\ AnswerCalls # {}
  /\ Len(result.sources) >= 2


\* ------------------------------------------- properties of the ingestion
Stored == pc = "stored"

EmbedCalls == { i \in 1..Len(effects) : effects[i].op = "get_embeddings" }

UpsertCalls == { i \in 1..Len(effects) : effects[i].op = "index.upsert" }

\* the number of the embedding batch document i (from 1) falls in
BatchOf(i) == ((i - 1) \div EMBEDDING_BATCH_SIZE) + 1

\* the documents whose batch was embedded, in their original order
Embedded ==
  SelectSeq([ i \in 1..Len(documents) |-> [at |-> i, d |-> documents[i]] ],
            LAMBDA x : BatchOf(x.at) \notin faults.failed_batches)

\* everything handed to index.upsert, in call order
Upserted ==
  Concat([ i \in 1..Len(effects) |->
             IF effects[i].op = "index.upsert" THEN effects[i].arg ELSE <<>> ])

\* documents are embedded in consecutive batches of at most
\* EMBEDDING_BATCH_SIZE, one call per batch, failed or not
EmbeddedInBatchesOnce ==
  /\ Cardinality(EmbedCalls) = BatchCount(Len(documents))
  /\ \A k \in 1..BatchCount(Len(documents)) :
       /\ effects[k].op = "get_embeddings"
       /\ Len(effects[k].arg.texts) \in 1..EMBEDDING_BATCH_SIZE
       /\ \A j \in 1..Len(effects[k].arg.texts) :
            /\ (k - 1) * EMBEDDING_BATCH_SIZE + j <= Len(documents)
            /\ effects[k].arg.texts[j]
                 = documents[(k - 1) * EMBEDDING_BATCH_SIZE + j].text_content
       /\ \/ k * EMBEDDING_BATCH_SIZE <= Len(documents)
               /\ Len(effects[k].arg.texts) = EMBEDDING_BATCH_SIZE
          \/ k * EMBEDDING_BATCH_SIZE > Len(documents)
               /\ (k - 1) * EMBEDDING_BATCH_SIZE + Len(effects[k].arg.texts)
                    = Len(documents)

\* what is handed to the index is the embedded documents, each once, in order
UpsertsTheEmbedded ==
  /\ Len(Upserted) = Len(Embedded)
  /\ \A i \in 1..Len(Embedded) :
       /\ Upserted[i].id = Embedded[i].d.id
       /\ Upserted[i].metadata.text_content = Embedded[i].d.text_content
       /\ Upserted[i].metadata.chunk_index = Embedded[i].d.chunk_index
       /\ Upserted[i].values = embedding(Embedded[i].d.text_content)

Answered(r) == submit_pc[r] = "done"

Rejected(status_code) == status_code \in 400..499

\* the url names no video: empty, or not matched by the pattern
BadUrl(url) == url = <<>> \/ search_id(url, 0) = <<>>

\* C24 (violated): every input error, a bad or empty url given to
\* process_video or an empty query or video id given to chat_endpoint, is
\* answered with a 4xx status and never with a 5xx one
C24_InputErrorsAreRejectedAs4xx ==
  /\ \A r \in Submitters :
       (Answered(r) /\ BadUrl(submit_url[r])) =>
         Rejected(submit_response[r].status_code)
  /\ (pc = "chat" /\ (request.query = <<>> \/ request.video_id = <<>>)) =>
       Rejected(result.status_code)

\* C30 (violated): however two process_video requests for one video are
\* interleaved, the index ends with at most one stored chunk per
\* (video id, chunk index)
C30_OneChunkPerVideoAndIndex ==
  \A i \in 1..Len(vectors), j \in 1..Len(vectors) :
    ( /\ i # j
      /\ vectors[i].metadata.video_id = vectors[j].metadata.video_id )
      => vectors[i].metadata.chunk_index # vectors[j].metadata.chunk_index


\* an embedding, index or generation call made for the request failed; the
\* classifier's call is logged as "classify" and does not count
UpstreamCallFailed ==
  \/ faults.embed /\ Made("get_embeddings")
  \/ faults.query /\ Made("index.query")
  \/ faults.llm_ok = 0 /\ Made("generate_content")

\* C25 (violated): when an embedding, index or text-generation call made while
\* serving /chat fails, the request is answered with a 5xx status and never
\* with a success
C25_UpstreamFailureIsA5xx ==
  (pc = "chat" /\ UpstreamCallFailed) => result.status_code \in 500..599


\* ------------------------------------------------ properties of the text map
\* the characters the first n segments take in full_text: each text and the
\* space appended to it
RECURSIVE CharsOfFirst(_, _)
CharsOfFirst(segs, n) ==
  IF n = 0 THEN 0 ELSE CharsOfFirst(segs, n - 1) + Len(segs[n].text) + 1

\* chunk_transcript has built the text map of a transcript that has segments
TextMapBuilt == pc \in {"loop", "done"} /\ transcript_data # <<>>

\* C27: _create_text_map returns one offset-map entry per segment, in segment
\* order; the first offset is 0, the offsets increase strictly (also past
\* empty texts), entry i's offset is the sum of (text length + 1) over the
\* segments before it, and full_text is as long as that sum over all segments
C27_OffsetMapFollowsSegments ==
  TextMapBuilt =>
    /\ Len(offset_map) = Len(transcript_data)
    /\ offset_map[1][1] = 0
    /\ \A i \in 1..Len(offset_map) :
         /\ offset_map[i][2] = transcript_data[i].start
         /\ offset_map[i][1] = CharsOfFirst(transcript_data, i - 1)
    /\ \A i \in 1..(Len(offset_map) - 1) : offset_map[i][1] < offset_map[i + 1][1]
    /\ Len(full_text) = CharsOfFirst(transcript_data, Len(transcript_data))

\* the map of two segments, the first one empty: offsets 0 and 1
C27_Witness ==
  /\ TextMapBuilt
  /\ Len(transcript_data) = 2
  /\ transcript_data[1].text = <<>>
  /\ transcript_data[2].text # <<>>
  /\ transcript_data[1].start # transcript_data[2].start
  /\ offset_map = << <<0, transcript_data[1].start>>, <<1, transcript_data[2].start>> >>
  /\ Len(full_text) = Len(transcript_data[2].text) + 2


\* ------------------------------------------------- properties of the cursor
\* the pieces handled so far that were located
Located == { i \in 1..Len(located) : located[i] # -1 }

\* C28 (violated): across the pieces of one chunk_transcript run the located
\* start offsets increase strictly in piece order; after a match the cursor is
\* the match plus half the piece's length, the cursor never moves backward and
\* no two pieces are located at the same offset
C28_LocatedOffsetsIncrease ==
  pc \in {"loop", "done"} =>
    /\ \A i \in Located, j \in Located : i < j => located[i] < located[j]
    /\ \A i \in Located :
         cursors[i + 1] = located[i] + (Len(raw_chunks[i]) \div 2)
    /\ \A i \in 1..(Len(cursors) - 1) : cursors[i] <= cursors[i + 1]


\* ------------------------------------------- properties of the hierarchical path
\* the video's chunks do not fit one pass: too many characters or too many chunks
Hierarchical ==
  /\ Summarized
  /\ \/ StoredChars(StoredFor(request.video_id)) > MAX_CONTEXT_CHARS
     \/ Cardinality(StoredFor(request.video_id)) > MAX_CHUNKS_PER_BATCH

\* C29: on the hierarchical path a video of at least 2 chunks is split into at
\* least 2 batches and, when its model calls succeed, merged by exactly one
\* merge call; the merge is skipped on this path only for a video of one chunk
\* that alone exceeds the budget, whose batch summary is the returned summary
C29_HierarchicalMergesOnceUnlessSingleChunk ==
  Hierarchical =>
    /\ Cardinality(StoredFor(request.video_id)) >= 2 =>
         /\ Len(batches) >= 2
         /\ Cardinality(Prompted("COMBINE_PROMPT")) <= 1
         /\ ~result.raised =>
              /\ Cardinality(Prompted("COMBINE_PROMPT")) = 1
              /\ Prompted("COMBINE_PROMPT") = {Len(effects)}
    /\ (~result.raised /\ Prompted("COMBINE_PROMPT") = {}) =>
         /\ Cardinality(StoredFor(request.video_id)) = 1
         /\ StoredChars(StoredFor(request.video_id)) > MAX_CONTEXT_CHARS
         /\ Len(batches) = 1
         /\ Cardinality(Prompted("SUMMARY_PROMPT")) = 1
         /\ result.summary = reply(effects[Len(effects)].arg)

\* two chunks that fit the batch cap but not the budget: two batches, two
\* batch summaries and one merge, whose reply is returned
C29_Witness ==
  /\ Hierarchical
  /\ ~result.raised
  /\ Cardinality(StoredFor(request.video_id)) = 2
  /\ Len(batches) = 2
  /\ Cardinality(Prompted("SUMMARY_PROMPT")) = 2
  /\ Prompted("COMBINE_PROMPT") = {Len(effects)}
  /\ result.summary = reply(effects[Len(effects)].arg)

=============================================================================
